---- MODULE Spec2Model ----
(***************************************************************************)
(* State-machine model of the shell / Node tooling of the repository:      *)
(*   - the deployment scripts (deploy-preview.sh, deploy-production.sh,    *)
(*     verify-preview.sh, verify-production.sh, _deployment-helpers.sh),   *)
(*   - the project bootstrapper (init-new-project.sh),                     *)
(*   - the template sync engine (sync-config.sh, sync-to-project.js,       *)
(*     sync-all-projects.js, pull-from-source.js).                         *)
(* Every string of the scripts is a sequence: a branch name is the         *)
(* sequence of its "/"-separated segments, a free-text value is the        *)
(* sequence of its characters, the empty string is << >>.                  *)
(***************************************************************************)
EXTENDS Integers, Sequences, FiniteSets, TLC

VARIABLES
  tool,        \* the script that was started
  pc,          \* position of the running script
  exitCode,    \* -1 while running, else the process exit status
  cmds,        \* external commands invoked so far, in order
  out,         \* lines printed so far that matter to a reader, in order
  absent,      \* tools that are not on PATH
  manifest,    \* .deployment-config.json at the repository root
  curBranch,   \* git branch --show-current
  env,         \* variables exported by export_config_vars
  sub,         \* TRUE while verify-preview.sh runs as a child of deploy-preview.sh
  FAILURES,    \* the verify scripts' counter
  probeIdx,    \* next probe of the verify script
  probeLog,    \* outcome of each probe issued so far
  reply,       \* the last line read from the terminal by a deploy script
  projName,    \* init-new-project.sh: $1
  siblingDir,  \* init-new-project.sh: TRUE when ../<name> exists
  typed,       \* init-new-project.sh: the lines typed at the prompts
  answers,     \* init-new-project.sh: the shell variables set from them
  newProj,     \* init-new-project.sh: the new project directory
  argv,        \* sync tools: the command-line arguments
  cwd,         \* sync-config.sh: the directory it is run from
  errexit,     \* TRUE when the shell applies set -e to (( )): bash 4.1 and later
  generator,   \* scripts/generate-claude-md.sh in the project: absent, fails, works
  hub,         \* files of the template directory
  projects,    \* the project directories, by name
  backups,     \* the .sync-backups directories made so far
  idx,         \* position of the running loop in its list
  count,       \* sync-config.sh
  syncCount,   \* sync-to-project.js
  skipCount,   \* the running Node tool
  successCount, \* sync-all-projects.js
  errorCount,  \* sync-all-projects.js
  changedCount, \* pull-from-source.js
  runNo,       \* 1 for the first invocation, 2 for the same command entered again
  start,       \* hub, projects and backups when the current invocation began
  prior        \* hub, projects and output when the previous invocation ended

commonVars == <<tool, pc, exitCode, cmds, out>>
deployVars == <<absent, manifest, curBranch, env, sub, FAILURES, probeIdx, probeLog, reply>>
bootVars   == <<projName, siblingDir, typed, answers, newProj>>
syncVars   == <<argv, cwd, errexit, generator, hub, projects, backups, idx, count, syncCount,
                skipCount, successCount, errorCount, changedCount, runNo, start, prior>>
nonDeployVars == <<bootVars, syncVars>>
nonBootVars   == <<curBranch, sub, FAILURES, probeIdx, probeLog, syncVars>>
nonSyncVars   == <<deployVars, bootVars>>

----------------------------------------------------------------------------
(* Generic helpers *)

EmptyStr == << >>

RECURSIVE SelectInOrder(_, _)
\* The sub-sequence of s whose elements are in set S (order kept).
SelectInOrder(s, S) ==
  IF s = << >> THEN << >>
  ELSE (IF Head(s) \in S THEN <<Head(s)>> ELSE << >>) \o SelectInOrder(Tail(s), S)

RECURSIVE CountOf(_, _)
\* Number of elements of s equal to x.
CountOf(s, x) ==
  IF s = << >> THEN 0
  ELSE (IF Head(s) = x THEN 1 ELSE 0) + CountOf(Tail(s), x)

Range(s) == { s[i] : i \in 1..Len(s) }

\* Position of the first element of s whose head is in the set H, 0 if none.
FirstWithHead(s, H) ==
  IF \E i \in 1..Len(s) : s[i][1] \in H
  THEN CHOOSE i \in 1..Len(s) : s[i][1] \in H /\ \A j \in 1..(i-1) : s[j][1] \notin H
  ELSE 0

Running == exitCode = -1

----------------------------------------------------------------------------
(* _deployment-helpers.sh *)

\* validate_prerequisites tests these, in this order.
RequiredTools == <<"git", "node", "npm", "gh (GitHub CLI)", "jq", "curl">>

\* Bash regex  =~ ^feature/  on a branch name.
IsFeatureBranch(b) == Len(b) >= 2 /\ b[1] = "feature"

ManifestKeys ==
  {"projectName", "owner", "repo", "vercelProjectName", "previewUrl",
   "productionUrl", "previewBranch", "productionBranch"}

\* load_deployment_config: what reaches jq on stdout.  The file is looked up
\* under `git rev-parse --show-toplevel`; jq must be installed; the JSON must
\* parse.  Each failure prints an error and exits the sub-shell only.
load_deployment_config(m, gone) ==
  IF "git" \in gone THEN "missing"
  ELSE IF m.state = "missing" THEN "missing"
  ELSE IF "jq" \in gone THEN "nojq"
  ELSE IF m.state = "malformed" THEN "malformed"
  ELSE "ok"

\* get_config: load_deployment_config | jq -r KEY, captured by $( ).
\* An error message piped to jq yields no output, hence the empty string.
get_config(m, gone, key) ==
  IF load_deployment_config(m, gone) = "ok"
  THEN m.fields[key]
  ELSE EmptyStr

\* export_config_vars: `export X=$(get_config ...)` never fails the script.
export_config_vars(m, gone) ==
  [ PROJECT_NAME        |-> get_config(m, gone, "projectName"),
    GITHUB_OWNER        |-> get_config(m, gone, "owner"),
    GITHUB_REPO         |-> get_config(m, gone, "repo"),
    VERCEL_PROJECT_NAME |-> get_config(m, gone, "vercelProjectName"),
    PREVIEW_URL         |-> get_config(m, gone, "previewUrl"),
    PRODUCTION_URL      |-> get_config(m, gone, "productionUrl"),
    PREVIEW_BRANCH      |-> get_config(m, gone, "previewBranch"),
    PRODUCTION_BRANCH   |-> get_config(m, gone, "productionBranch") ]

NoEnv ==
  [ PROJECT_NAME |-> EmptyStr, GITHUB_OWNER |-> EmptyStr, GITHUB_REPO |-> EmptyStr,
    VERCEL_PROJECT_NAME |-> EmptyStr, PREVIEW_URL |-> EmptyStr,
    PRODUCTION_URL |-> EmptyStr, PREVIEW_BRANCH |-> EmptyStr,
    PRODUCTION_BRANCH |-> EmptyStr ]

----------------------------------------------------------------------------
(* State of the bootstrapper when another tool runs *)

NoAnswers ==
  [ GITHUB_OWNER |-> EmptyStr, GITHUB_REPO |-> EmptyStr,
    VERCEL_PROJECT_NAME |-> EmptyStr, VERCEL_TEAM |-> EmptyStr,
    PRODUCTION_DOMAIN |-> EmptyStr, SUPABASE_PREVIEW_REF |-> EmptyStr,
    SUPABASE_PRODUCTION_REF |-> EmptyStr ]

NoRepo == [commits |-> 0, branches |-> {}, head |-> EmptyStr]

NoProject == [exists |-> FALSE, paths |-> {}, raw |-> << >>, repo |-> NoRepo]

BootIdle ==
  /\ projName = EmptyStr
  /\ siblingDir = FALSE
  /\ typed = NoAnswers
  /\ answers = NoAnswers
  /\ newProj = NoProject

----------------------------------------------------------------------------
(* The template sync engine: files, allowlists and option parsing *)

\* A path of a tree holds NoFile, or File(c) where c is the content: the
\* characters of a file, or the listing of a directory.
NoFile == << >>
File(c) == <<c>>
Exists(tree, p) == tree[p] # NoFile

One   == <<"1">>
Two   == <<"2">>
OneNl == <<"1", "\n">>

WhiteSpace == {" ", "\n", "\t"}

RECURSIVE TrimLeft(_)
TrimLeft(s) == IF s # << >> /\ Head(s) \in WhiteSpace THEN TrimLeft(Tail(s)) ELSE s

RECURSIVE TrimRight(_)
TrimRight(s) ==
  IF s # << >> /\ s[Len(s)] \in WhiteSpace THEN TrimRight(SubSeq(s, 1, Len(s) - 1)) ELSE s

\* String.prototype.trim
Trim(s) == TrimRight(TrimLeft(s))

\* sync-config.sh CONFIG_FILES, three of its entries: a file, a directory and
\* the file generate-claude-md.sh rewrites.  The loops treat every entry alike.
CONFIG_FILES == <<".claude/settings.json", "docs/standards", "CLAUDE.md">>

\* The entries of CONFIG_FILES that are directories.
DirectoryEntries == {"docs/standards"}

\* sync-to-project.js filesToSync: a plain entry, an optional entry and the
\* version stamp.
filesToSync ==
  << [src |-> "configs/.prettierrc", dest |-> ".prettierrc", optional |-> FALSE],
     [src |-> "scripts/validate-env.js", dest |-> "scripts/validate-env.js", optional |-> TRUE],
     [src |-> ".dev-standards-version", dest |-> ".dev-standards-version", optional |-> FALSE] >>

\* pull-from-source.js FILES_TO_PULL: two required entries and an optional one.
FILES_TO_PULL ==
  << [source |-> ".prettierrc", dest |-> "configs/.prettierrc", optional |-> FALSE],
     [source |-> "tsconfig.json", dest |-> "configs/tsconfig.base.json", optional |-> FALSE],
     [source |-> "scripts/validate-env.js", dest |-> "scripts/validate-env.js", optional |-> TRUE] >>

\* sync-config.sh TEMPLATE_FILES ("template:target"), two of its entries: one
\* whose target lies in a sub-directory and one at the top of the project.
\* Both targets are also entries of CONFIG_FILES.
TEMPLATE_FILES ==
  << [template |-> ".claude/settings.json.template", target |-> ".claude/settings.json"],
     [template |-> "CLAUDE.md.template", target |-> "CLAUDE.md"] >>

\* Paths of the template directory and of a project directory.
HubPaths ==
  Range(CONFIG_FILES) \cup { filesToSync[i].src : i \in 1..Len(filesToSync) }
    \cup { FILES_TO_PULL[i].dest : i \in 1..Len(FILES_TO_PULL) }
    \cup { TEMPLATE_FILES[i].template : i \in 1..Len(TEMPLATE_FILES) }
ProjectPaths ==
  Range(CONFIG_FILES) \cup { filesToSync[i].dest : i \in 1..Len(filesToSync) }
    \cup { FILES_TO_PULL[i].source : i \in 1..Len(FILES_TO_PULL) }
    \cup { "README.md" }

\* The paths of the model that lie in the same sub-directory as p; none for a
\* path at the top of the project.
SubDirOf(p) ==
  IF p = ".claude/settings.json" THEN {".claude/settings.json"}
  ELSE IF p = "docs/standards" THEN {"docs/standards"}
  ELSE {}

\* `cp template target` without mkdir -p: the directory of the target must
\* be there already, which it is at the top of the project or once a path of
\* that directory has been copied.
TargetDirExists(files, p) == SubDirOf(p) = {} \/ \E q \in SubDirOf(p) : Exists(files, q)

EmptyHub == [p \in HubPaths |-> NoFile]
EmptyFiles == [p \in ProjectPaths |-> NoFile]

\* A tree that holds t on the paths of t and nothing elsewhere.
Over(paths, t) == [p \in paths |-> IF p \in DOMAIN t THEN t[p] ELSE NoFile]

DEFAULT_PATH == "project-template"
SOURCE_PROJECT == "medicaremagic"

\* sync-all-projects.js: the fallback list used without a registry file.
PROJECTS == <<"medicaremagic", "authormagic">>

NoDir == [exists |-> FALSE, files |-> EmptyFiles, commits |-> 0, dirty |-> FALSE, repo |-> FALSE]
NoDirs == [n \in Range(PROJECTS) |-> NoDir]

SyncTools == {"sync-config", "sync-to-project", "sync-all-projects", "pull-from-source"}

NoOptions == [DRY_RUN |-> FALSE, CREATE_BACKUP |-> FALSE, FORCE |-> FALSE, rest |-> << >>]

\* The words the option loop of sync-config.sh shifts away.
OptionWords == {"--dry-run", "-d", "--backup", "-b", "--force", "-f"}

\* Options looked for anywhere on the command line, as the Node tools do.
ParseFlags_Mut(args, o) ==
  [ DRY_RUN       |-> o.DRY_RUN \/ Range(args) \cap {"--dry-run", "-d"} # {},
    CREATE_BACKUP |-> o.CREATE_BACKUP \/ Range(args) \cap {"--backup", "-b"} # {},
    FORCE         |-> o.FORCE \/ Range(args) \cap {"--force", "-f"} # {},
    rest          |-> SelectSeq(args, LAMBDA a : a \notin OptionWords) ]

RECURSIVE ParseFlags(_, _)
\* sync-config.sh option loop: stops at the first argument that is no option.
ParseFlags(args, o) ==
  IF args = << >> THEN [o EXCEPT !.rest = << >>]
  ELSE IF Head(args) \in {"--dry-run", "-d"}
       THEN ParseFlags(Tail(args), [o EXCEPT !.DRY_RUN = TRUE])
  ELSE IF Head(args) \in {"--backup", "-b"}
       THEN ParseFlags(Tail(args), [o EXCEPT !.CREATE_BACKUP = TRUE])
  ELSE IF Head(args) \in {"--force", "-f"}
       THEN ParseFlags(Tail(args), [o EXCEPT !.FORCE = TRUE])
  ELSE [o EXCEPT !.rest = args]

Options == ParseFlags(argv, NoOptions)
DRY_RUN == Options.DRY_RUN
CREATE_BACKUP == Options.CREATE_BACKUP
FORCE == Options.FORCE

\* "${1:-}" once the options are shifted away.
Command == IF Options.rest = << >> THEN "" ELSE Options.rest[1]

\* "${2:-}": the name given to init.
NEW_PROJECT_NAME == IF Len(Options.rest) >= 2 THEN Options.rest[2] ELSE ""

\* The Node tools look for their flags anywhere in argv.
dryRun == "--dry-run" \in Range(argv)
autoCommit == "--auto-commit" \in Range(argv)
targetProject == IF argv = << >> THEN "" ELSE argv[1]

\* push_to_default / pull_from_default: a backup directory is made only for a
\* real run.  Mutant: made whenever --backup is given.
MakesBackupDir_Mut(backup, dry) == backup

MakesBackupDir(backup, dry) == backup /\ ~dry

\* `rm -rf dest` (when it exists) then `cp -r src dest`: dest becomes src.
\* Mutant: without the rm, cp -r puts src inside an existing directory.
CleanCopy_Mut(src, dst) == IF dst = NoFile THEN src ELSE File(dst[1] \o <<"/">> \o src[1])

CleanCopy(src, dst) == src

\* sync-to-project.js line 75.  Mutant: the existence test inverted.
SkipOptional_Mut(destExists, optional) == ~destExists /\ optional

SkipOptional(destExists, optional) == destExists /\ optional

\* generate-claude-md.py: CLAUDE.md derived from the template's CLAUDE.md and
\* the project's .claude/PROJECT_CONFIG.md.
Generated(template) == File(<<"g">> \o template[1])

\* One iteration of filesToSync.forEach on st = [files, syncCount, skipCount, lines].
SyncEntry(e, src, st, dry) ==
  IF ~Exists(src, e.src)
  THEN [st EXCEPT !.lines = Append(@, <<"Source not found", <<e.src>>>>)]
  ELSE IF SkipOptional(Exists(st.files, e.dest), e.optional)
  THEN [st EXCEPT !.skipCount = @ + 1,
                  !.lines = Append(@, <<"Skipping (optional, already exists)", <<e.dest>>>>)]
  ELSE IF dry
  THEN [st EXCEPT !.syncCount = @ + 1,
                  !.lines = Append(@, <<"[DRY RUN] Would copy", <<e.dest>>>>)]
  ELSE [st EXCEPT !.files[e.dest] = src[e.src],
                  !.syncCount = @ + 1,
                  !.lines = Append(@, <<"Copied", <<e.dest>>>>)]

RECURSIVE SyncEntries(_, _, _, _)
\* The whole forEach, as run by a child process of sync-all-projects.js.
SyncEntries(entries, src, st, dry) ==
  IF entries = << >> THEN st
  ELSE SyncEntries(Tail(entries), src, SyncEntry(Head(entries), src, st, dry), dry)

SyncRunning(t) == Running /\ tool = t

Snapshot == [hub |-> hub, projects |-> projects, backups |-> backups]

NoPrior == [hub |-> EmptyHub, projects |-> NoDirs, out |-> << >>, exitCode |-> -1]

SyncIdle ==
  /\ argv = << >> /\ cwd = "" /\ errexit = FALSE /\ generator = "absent"
  /\ hub = EmptyHub /\ projects = NoDirs /\ backups = << >>
  /\ idx = 1 /\ count = 0 /\ syncCount = 0 /\ skipCount = 0
  /\ successCount = 0 /\ errorCount = 0 /\ changedCount = 0
  /\ runNo = 1
  /\ start = [hub |-> EmptyHub, projects |-> NoDirs, backups |-> << >>]
  /\ prior = NoPrior

----------------------------------------------------------------------------
(* Inputs of the deployment scripts *)

\* Branch names: preview, main, a feature branch, another branch, and the
\* empty name that `git branch --show-current` prints on a detached HEAD.
ManifestBranches == { <<"preview">>, <<"main">>, <<"feature", "x">> }
CurrentBranches  == ManifestBranches \cup { <<"hotfix">>, EmptyStr }

DeployFields(pb, mb) ==
  [ projectName |-> <<"demo">>, owner |-> <<"acme">>, repo |-> <<"demo">>,
    vercelProjectName |-> <<"demo">>,
    previewUrl |-> <<"https://demo-git-preview-acme.vercel.app">>,
    productionUrl |-> <<"https://demo.com">>,
    previewBranch |-> pb, productionBranch |-> mb ]

DeployManifests ==
  { [state |-> "missing", fields |-> DeployFields(EmptyStr, EmptyStr)],
    [state |-> "malformed", fields |-> DeployFields(EmptyStr, EmptyStr)] }
  \cup { [state |-> "ok", fields |-> DeployFields(pb, mb)] :
           pb \in ManifestBranches, mb \in ManifestBranches }

\* Exit statuses a failing npm / git command can hand to `set -e`.
FailCodes == {1, 2}

\* What the user can type at a `read -r` prompt / at a `read -n 1` prompt.
Replies     == { <<"yes">>, <<"y">>, <<"Yes">>, <<"no">>, EmptyStr }
KeyReplies  == { <<"y">>, <<"Y">>, <<"n">>, EmptyStr }

DeployScripts == {"deploy-preview", "deploy-production"}
VerifyScripts == {"verify-preview", "verify-production"}

\* The probes of each verify script, in order: the path appended to the URL.
Probes(script) ==
  IF script = "verify-preview" THEN << <<"/api/health">>, EmptyStr >>
  ELSE << <<"/api/health">>, EmptyStr, <<"/sign-in">> >>

\* The verify script that is running (as the started tool or as a child).
VerifyRunning == IF sub THEN "verify-preview" ELSE tool

BaseUrl(script, e) ==
  IF script = "verify-preview" THEN e.PREVIEW_URL ELSE e.PRODUCTION_URL

----------------------------------------------------------------------------
(* Steps shared by the deployment scripts *)

Exit(code) == pc' = "exited" /\ exitCode' = code

Say(line) == out' = Append(out, line)

Invoke(name, arg) == cmds' = Append(cmds, <<name, arg>>)

\* curl -f URL --max-time 30: TRUE for a 2xx answer.  Without curl on PATH, or
\* with an empty base URL, the command fails whatever the server would say.
CurlOutcomes(base, gone) ==
  IF "curl" \in gone \/ base = EmptyStr THEN {FALSE} ELSE BOOLEAN

RECURSIVE ToolLines(_)
ToolLines(ts) ==
  IF ts = << >> THEN << >> ELSE << <<"  - ", <<Head(ts)>> >> >> \o ToolLines(Tail(ts))

\* Lines 47-77: the `missing` array once all six tests have run.
\* A check that gives up at the first tool it does not find.
MissingTools_Mut(gone) ==
  IF SelectInOrder(RequiredTools, gone) = << >> THEN << >>
  ELSE <<Head(SelectInOrder(RequiredTools, gone))>>

MissingTools(gone) == SelectInOrder(RequiredTools, gone)

\* validate_prerequisites: every tool is tested; the missing ones are listed.
validate_prerequisites ==
  /\ Running /\ pc = "prereq" /\ tool \in DeployScripts
  /\ LET missing == MissingTools(absent) IN
       IF Len(missing) > 0
       THEN /\ out' = out \o << <<"ERROR: Missing required tools:", EmptyStr>> >>
                          \o ToolLines(missing)
            /\ Exit(1)
       ELSE /\ pc' = IF tool = "deploy-production" THEN "ghAuth" ELSE "export"
            /\ UNCHANGED <<out, exitCode>>
  /\ UNCHANGED <<nonDeployVars, tool, cmds, deployVars>>

\* check_gh_auth: gh auth status.  deploy-production runs it before loading the
\* configuration, deploy-preview only after a "y" at the PR prompt.
check_gh_auth ==
  /\ Running /\ pc = "ghAuth" /\ tool \in DeployScripts
  /\ \E authed \in BOOLEAN :
       /\ Invoke("gh auth status", EmptyStr)
       /\ IF authed
          THEN /\ pc' = IF tool = "deploy-production" THEN "export" ELSE "prCreate"
               /\ UNCHANGED <<out, exitCode>>
          ELSE /\ Say(<<"ERROR: GitHub CLI not authenticated", EmptyStr>>)
               /\ Exit(1)
  /\ UNCHANGED <<nonDeployVars, tool, deployVars>>

\* export_config_vars followed by CURRENT_BRANCH=$(git branch --show-current).
LoadConfig ==
  /\ Running /\ pc = "export" /\ tool \in DeployScripts
  /\ env' = export_config_vars(manifest, absent)
  /\ pc' = "branch"
  /\ UNCHANGED <<nonDeployVars, tool, exitCode, cmds, out, absent, manifest, curBranch, sub,
                 FAILURES, probeIdx, probeLog, reply>>

\* npm run validate-production under set -e.
RunValidation ==
  /\ Running /\ pc = "validate" /\ tool \in DeployScripts
  /\ Invoke("npm run validate-production", EmptyStr)
  /\ \/ /\ pc' = IF tool = "deploy-preview" THEN "push" ELSE "prCreate"
        /\ UNCHANGED exitCode
     \/ \E c \in FailCodes : Exit(c)
  /\ UNCHANGED <<nonDeployVars, tool, out, deployVars>>

----------------------------------------------------------------------------
(* deploy-preview.sh *)

\* Lines 20-27: must be on the preview branch or on a feature/* branch.
\* A gate that only keeps the production branch out.
PreviewBranchAllowed_Mut(b, e) == b # e.PRODUCTION_BRANCH

PreviewBranchAllowed(b, e) == b = e.PREVIEW_BRANCH \/ IsFeatureBranch(b)

DP_BranchCheck ==
  /\ Running /\ pc = "branch" /\ tool = "deploy-preview"
  /\ IF PreviewBranchAllowed(curBranch, env)
     THEN pc' = "clean" /\ UNCHANGED <<out, exitCode>>
     ELSE Say(<<"ERROR: Must be on preview or feature/* branch", curBranch>>) /\ Exit(1)
  /\ UNCHANGED <<nonDeployVars, tool, cmds, deployVars>>

\* Lines 29-35: git status -s must print nothing.
DP_CleanCheck ==
  /\ Running /\ pc = "clean" /\ tool = "deploy-preview"
  /\ Invoke("git status -s", EmptyStr)
  /\ \E dirty \in BOOLEAN :
       IF dirty
       THEN Say(<<"ERROR: You have uncommitted changes", EmptyStr>>) /\ Exit(1)
       ELSE pc' = "validate" /\ UNCHANGED <<out, exitCode>>
  /\ UNCHANGED <<nonDeployVars, tool, deployVars>>

\* Lines 48-61: what follows a successful push.
\* Verification started straight after the push.
AfterPush_Mut(b) == "verify"

AfterPush(b) == IF IsFeatureBranch(b) THEN "prPrompt" ELSE "wait"

\* Line 46: the remote and the branch given to git push.
\* A push of the checked-out commit to the production branch.
PushTarget_Mut(b, e) == <<"origin", e.PRODUCTION_BRANCH>>

PushTarget(b, e) == <<"origin", b>>

\* Line 46: git push origin "$CURRENT_BRANCH" under set -e.
DP_Push ==
  /\ Running /\ pc = "push" /\ tool = "deploy-preview"
  /\ Invoke("git push", PushTarget(curBranch, env))
  /\ \/ /\ pc' = AfterPush(curBranch)
        /\ UNCHANGED exitCode
     \/ \E c \in FailCodes : Exit(c)
  /\ UNCHANGED <<nonDeployVars, tool, out, deployVars>>

\* Lines 49-57: on a feature branch, read -n 1 "Create PR to preview? (y/n)".
DP_PrPrompt ==
  /\ Running /\ pc = "prPrompt" /\ tool = "deploy-preview"
  /\ \E r \in KeyReplies :
       /\ reply' = r
       /\ Invoke("read", <<"Create PR?">>)
       /\ pc' = IF r \in { <<"y">>, <<"Y">> } THEN "ghAuth" ELSE "wait"
  /\ UNCHANGED <<nonDeployVars, tool, exitCode, out, absent, manifest, curBranch, env, sub,
                 FAILURES, probeIdx, probeLog>>

\* Line 55: gh pr create --base "$PREVIEW_BRANCH" --fill || echo ...
DP_PrCreate ==
  /\ Running /\ pc = "prCreate" /\ tool = "deploy-preview"
  /\ Invoke("gh pr create", <<env.PREVIEW_BRANCH, curBranch>>)
  /\ \/ UNCHANGED out
     \/ Say(<<"PR may already exist", EmptyStr>>)
  /\ pc' = "wait"
  /\ UNCHANGED <<nonDeployVars, tool, exitCode, deployVars>>

\* Line 61: sleep 90.
DP_Wait ==
  /\ Running /\ pc = "wait" /\ tool = "deploy-preview"
  /\ Invoke("sleep", <<"90">>)
  /\ pc' = "verify"
  /\ UNCHANGED <<nonDeployVars, tool, exitCode, out, deployVars>>

\* Line 65: bash verify-preview.sh, a child process with its own variables.
DP_StartVerify ==
  /\ Running /\ pc = "verify" /\ tool = "deploy-preview" /\ ~sub
  /\ Invoke("bash verify-preview.sh", EmptyStr)
  /\ sub' = TRUE
  /\ pc' = "v_export"
  /\ UNCHANGED <<nonDeployVars, tool, exitCode, out, absent, manifest, curBranch, env,
                 FAILURES, probeIdx, probeLog, reply>>

\* Lines 67-71: the closing banner; the script ends with status 0.
DP_Complete ==
  /\ Running /\ pc = "complete" /\ tool = "deploy-preview"
  /\ Say(<<"Preview deployment complete", env.PREVIEW_URL>>)
  /\ Exit(0)
  /\ UNCHANGED <<nonDeployVars, tool, cmds, deployVars>>

----------------------------------------------------------------------------
(* deploy-production.sh *)

\* Lines 23-32: the current branch must be exactly the preview branch.
\* The preview script's gate reused: feature/* branches let through.
ProductionBranchAllowed_Mut(b, e) == b = e.PREVIEW_BRANCH \/ IsFeatureBranch(b)

ProductionBranchAllowed(b, e) == b = e.PREVIEW_BRANCH

PR_BranchCheck ==
  /\ Running /\ pc = "branch" /\ tool = "deploy-production"
  /\ IF ProductionBranchAllowed(curBranch, env)
     THEN pc' = "health" /\ UNCHANGED <<out, exitCode>>
     ELSE Say(<<"ERROR: Production deploys must come from preview branch", curBranch>>)
          /\ Exit(1)
  /\ UNCHANGED <<nonDeployVars, tool, cmds, deployVars>>

\* Lines 34-41: curl -f "$PREVIEW_URL/api/health" --max-time 30.
PR_PreviewHealth ==
  /\ Running /\ pc = "health" /\ tool = "deploy-production"
  /\ Invoke("curl", env.PREVIEW_URL \o <<"/api/health">>)
  /\ \E healthy \in CurlOutcomes(env.PREVIEW_URL, absent) :
       IF healthy
       THEN pc' = "confirm" /\ UNCHANGED <<out, exitCode>>
       ELSE Say(<<"ERROR: Preview health check failed", EmptyStr>>) /\ Exit(1)
  /\ UNCHANGED <<nonDeployVars, tool, deployVars>>

\* Line 57: the status of a run whose reply r did not confirm it.
\* As in init-new-project.sh, where declining is a clean exit.
CancelStatus_Mut(r) == 0

CancelStatus(r) == 1

\* Line 55: [[ $REPLY == "yes" ]].
\* A prompt that takes any reply starting with y or Y.
Confirmed_Mut(r) == r \in { <<"yes">>, <<"y">>, <<"Yes">> }

Confirmed(r) == r = <<"yes">>

\* Lines 43-58: the checklist and read -r "Type 'yes' to continue".
PR_Confirm ==
  /\ Running /\ pc = "confirm" /\ tool = "deploy-production"
  /\ \E r \in Replies :
       /\ reply' = r
       /\ Invoke("read", <<"Type 'yes' to continue">>)
       /\ IF Confirmed(r)
          THEN pc' = "pull" /\ UNCHANGED <<out, exitCode>>
          ELSE Say(<<"Deployment cancelled", EmptyStr>>) /\ Exit(CancelStatus(r))
  /\ UNCHANGED <<nonDeployVars, tool, absent, manifest, curBranch, env, sub,
                 FAILURES, probeIdx, probeLog>>

\* Line 63: git pull origin "$PREVIEW_BRANCH" under set -e.
PR_Pull ==
  /\ Running /\ pc = "pull" /\ tool = "deploy-production"
  /\ Invoke("git pull", <<"origin", env.PREVIEW_BRANCH>>)
  /\ \/ pc' = "validate" /\ UNCHANGED exitCode
     \/ \E c \in FailCodes : Exit(c)
  /\ UNCHANGED <<nonDeployVars, tool, out, deployVars>>

\* Lines 72-87: gh pr create --base PRODUCTION --head PREVIEW ... || echo ...
\* A direct push to the production branch instead of a pull request.
ProductionPrCommand_Mut(e) ==
  <<"git push", <<"origin", e.PRODUCTION_BRANCH>> >>

ProductionPrCommand(e) ==
  <<"gh pr create", <<e.PRODUCTION_BRANCH, e.PREVIEW_BRANCH>> >>

PR_PrCreate ==
  /\ Running /\ pc = "prCreate" /\ tool = "deploy-production"
  /\ cmds' = Append(cmds, ProductionPrCommand(env))
  /\ \/ out' = Append(out, <<"PR created", EmptyStr>>)
     \/ out' = Append(out, <<"PR may already exist - check GitHub", EmptyStr>>)
  /\ pc' = "nextSteps"
  /\ UNCHANGED <<nonDeployVars, tool, exitCode, deployVars>>

\* Lines 89-96: the "Next steps" banner; the script ends with status 0.
PR_NextSteps ==
  /\ Running /\ pc = "nextSteps" /\ tool = "deploy-production"
  /\ Say(<<"Next steps", EmptyStr>>)
  /\ Exit(0)
  /\ UNCHANGED <<nonDeployVars, tool, cmds, deployVars>>

----------------------------------------------------------------------------
(* verify-preview.sh and verify-production.sh (no set -e) *)

V_Active == Running /\ (sub \/ tool \in VerifyScripts)

\* export_config_vars; FAILURES=0.
V_LoadConfig ==
  /\ V_Active /\ pc = "v_export"
  /\ env' = export_config_vars(manifest, absent)
  /\ FAILURES' = 0
  /\ probeIdx' = 1
  /\ probeLog' = << >>
  /\ pc' = "v_probe"
  /\ UNCHANGED <<nonDeployVars, tool, exitCode, cmds, out, absent, manifest, curBranch, sub, reply>>

\* One `if curl -f URL --max-time 30; then Passed else Failed; ((FAILURES++))`.
V_Probe ==
  /\ V_Active /\ pc = "v_probe"
  /\ probeIdx <= Len(Probes(VerifyRunning))
  /\ Invoke("curl", BaseUrl(VerifyRunning, env) \o Probes(VerifyRunning)[probeIdx])
  /\ \E ok \in CurlOutcomes(BaseUrl(VerifyRunning, env), absent) :
       /\ probeLog' = Append(probeLog, ok)
       /\ IF ok
          THEN Say(<<"   Passed", EmptyStr>>) /\ UNCHANGED FAILURES
          ELSE Say(<<"   Failed", EmptyStr>>) /\ FAILURES' = FAILURES + 1
  /\ probeIdx' = probeIdx + 1
  /\ UNCHANGED <<nonDeployVars, tool, pc, exitCode, absent, manifest, curBranch, env, sub, reply>>

\* The summary: exit 0 when FAILURES is 0, else "N check(s) failed" and exit 1.
\* A summary that always ends with status 0.
VerifyStatus_Mut(failures) == 0

VerifyStatus(failures) == IF failures = 0 THEN 0 ELSE 1

V_Report ==
  /\ V_Active /\ pc = "v_probe"
  /\ probeIdx > Len(Probes(VerifyRunning))
  /\ IF FAILURES = 0
     THEN Say(<<"All checks passed", EmptyStr>>)
     ELSE Say(<<"check(s) failed", <<FAILURES>> >>)
  /\ IF sub
     THEN \* back in deploy-preview.sh, where set -e ends the script on failure
          /\ sub' = FALSE
          /\ IF VerifyStatus(FAILURES) = 0
             THEN pc' = "complete" /\ UNCHANGED exitCode
             ELSE Exit(VerifyStatus(FAILURES))
     ELSE /\ Exit(VerifyStatus(FAILURES))
          /\ UNCHANGED sub
  /\ UNCHANGED <<nonDeployVars, tool, cmds, absent, manifest, curBranch, env,
                 FAILURES, probeIdx, probeLog, reply>>

----------------------------------------------------------------------------
(* The deployment scripts as one specification *)

InitDeploy ==
  /\ tool \in DeployScripts \cup VerifyScripts
  /\ pc = IF tool \in DeployScripts THEN "prereq" ELSE "v_export"
  /\ exitCode = -1
  /\ cmds = << >>
  /\ out = << >>
  /\ absent \in SUBSET Range(RequiredTools)
  /\ manifest \in DeployManifests
  /\ curBranch \in CurrentBranches
  /\ env = NoEnv
  /\ sub = FALSE
  /\ FAILURES = 0
  /\ probeIdx = 1
  /\ probeLog = << >>
  /\ reply = EmptyStr
  /\ BootIdle
  /\ SyncIdle

NextDeploy ==
  \/ validate_prerequisites
  \/ check_gh_auth
  \/ LoadConfig
  \/ RunValidation
  \/ DP_BranchCheck
  \/ DP_CleanCheck
  \/ DP_Push
  \/ DP_PrPrompt
  \/ DP_PrCreate
  \/ DP_Wait
  \/ DP_StartVerify
  \/ DP_Complete
  \/ PR_BranchCheck
  \/ PR_PreviewHealth
  \/ PR_Confirm
  \/ PR_Pull
  \/ PR_PrCreate
  \/ PR_NextSteps
  \/ V_LoadConfig
  \/ V_Probe
  \/ V_Report

vars == <<commonVars, deployVars, bootVars, syncVars>>

SpecDeploy == InitDeploy /\ [][NextDeploy]_vars

----------------------------------------------------------------------------
(* init-new-project.sh: inputs and text conversions *)

\* Longest project name tried.
MaxNameLen == 2

\* Characters of a project-name argument: a lowercase letter, a hyphen, an
\* uppercase letter, an underscore.
NameChars == {"a", "-", "A", "_"}
ProjectNames == UNION { [1..n -> NameChars] : n \in 0..MaxNameLen }

\* Bash regex  =~ ^[a-z0-9-]+$  on the characters used here.
LowerAlnumHyphen == {"a", "-"}
\* The regex without its anchors: one good character is enough.
ValidProjectName_Mut(n) == \E i \in 1..Len(n) : n[i] \in LowerAlnumHyphen

ValidProjectName(n) == Len(n) >= 1 /\ \A i \in 1..Len(n) : n[i] \in LowerAlnumHyphen

\* Lines typed at a free-text prompt: nothing, plain text, text holding a
\* double quote, text holding an (escaped) backslash.
Texts == { EmptyStr, <<"x", "y">>, <<"x", "\"">>, <<"\\", "\\">> }
RefTexts == { EmptyStr, <<"r">> }

RECURSIVE ReadLine(_)
\* `read VAR` without -r: a backslash quotes the next character and is dropped.
ReadLine(line) ==
  IF line = << >> THEN << >>
  ELSE IF Head(line) = "\\"
       THEN IF Len(line) = 1 THEN << >>
            ELSE <<line[2]>> \o ReadLine(SubSeq(line, 3, Len(line)))
       ELSE <<Head(line)>> \o ReadLine(Tail(line))

\* ${VAR:-default}
OrDefault(v, d) == IF v = EmptyStr THEN d ELSE v

\* The here-document of step 3: each value is pasted between two double
\* quotes as it stands.  The raw text of every JSON string of the file:
ManifestText(name, a) ==
  [ projectName       |-> name,
    owner             |-> a.GITHUB_OWNER,
    repo              |-> a.GITHUB_REPO,
    vercelProjectName |-> a.VERCEL_PROJECT_NAME,
    previewUrl        |-> <<"https://">> \o a.VERCEL_PROJECT_NAME \o <<"-git-preview-">>
                            \o a.VERCEL_TEAM \o <<".vercel.app">>,
    productionUrl     |-> <<"https://">> \o a.PRODUCTION_DOMAIN,
    previewBranch     |-> <<"preview">>,
    productionBranch  |-> <<"main">>,
    previewRef        |-> a.SUPABASE_PREVIEW_REF,
    productionRef     |-> a.SUPABASE_PRODUCTION_REF ]

JsonSimpleEscapes == {"\"", "\\", "/"}

RECURSIVE JsonString(_)
\* jq reading the text between an opening double quote and the template's
\* closing one: [ok, val].  An unescaped double quote ends the string early
\* and leaves text where a comma or brace must follow; a backslash must start
\* a JSON escape, and a last lone backslash swallows the closing quote.
JsonString(raw) ==
  IF raw = << >> THEN [ok |-> TRUE, val |-> << >>]
  ELSE IF Head(raw) = "\"" THEN [ok |-> FALSE, val |-> << >>]
  ELSE IF Head(raw) = "\\"
       THEN IF Len(raw) >= 2 /\ raw[2] \in JsonSimpleEscapes
            THEN LET r == JsonString(SubSeq(raw, 3, Len(raw)))
                 IN  [ok |-> r.ok, val |-> <<raw[2]>> \o r.val]
            ELSE [ok |-> FALSE, val |-> << >>]
       ELSE LET r == JsonString(Tail(raw))
            IN  [ok |-> r.ok, val |-> <<Head(raw)>> \o r.val]

\* The manifest as jq sees it: malformed as soon as one string is, else the
\* decoded value of every field.
ParseManifest(text) ==
  IF \A k \in DOMAIN text : JsonString(text[k]).ok
  THEN [state |-> "ok",
        fields |-> [k \in ManifestKeys |-> JsonString(text[k]).val]]
  ELSE [state |-> "malformed",
        fields |-> [k \in ManifestKeys |-> EmptyStr]]

NoManifest == [state |-> "missing", fields |-> [k \in ManifestKeys |-> EmptyStr]]

\* The prompts of lines 84-107, in order, and the set each line is typed from.
Prompts ==
  << "GITHUB_OWNER", "GITHUB_REPO", "VERCEL_PROJECT_NAME", "VERCEL_TEAM",
     "PRODUCTION_DOMAIN", "SUPABASE_PREVIEW_REF", "SUPABASE_PRODUCTION_REF" >>

PromptTexts(v) ==
  IF v \in {"SUPABASE_PREVIEW_REF", "SUPABASE_PRODUCTION_REF"} THEN RefTexts ELSE Texts

\* The default of a variable left blank (lines 86, 93, 110, 111).
PromptDefault(v, name) ==
  CASE v \in {"GITHUB_REPO", "VERCEL_PROJECT_NAME"} -> name
    [] v = "SUPABASE_PREVIEW_REF" -> <<"YOUR_PREVIEW_PROJECT_REF">>
    [] v = "SUPABASE_PRODUCTION_REF" -> <<"YOUR_PRODUCTION_PROJECT_REF">>
    [] OTHER -> EmptyStr

\* What the copied template tree holds that step 2 removes, and what it keeps.
TemplateJunk == {".git", "node_modules", ".next", ".env.local", ".deployment-config.json"}
TemplateKept == {"package.json", "docs/templates", "scripts"}

DeployScriptPaths ==
  {"scripts/deploy/_deployment-helpers.sh", "scripts/deploy/deploy-preview.sh",
   "scripts/deploy/deploy-production.sh", "scripts/deploy/verify-preview.sh",
   "scripts/deploy/verify-production.sh", ".github/workflows/three-tier-pipeline.yml"}

----------------------------------------------------------------------------
(* init-new-project.sh: steps (set -e) *)

BootRunning == Running /\ tool = "init-new-project"

BootFrame == UNCHANGED <<nonBootVars, tool, absent, projName, siblingDir>>

\* Lines 19-25: a project name must be given.
B_ArgCheck ==
  /\ BootRunning /\ pc = "arg"
  /\ IF projName = EmptyStr
     THEN Say(<<"Error: Project name required", EmptyStr>>) /\ Exit(1)
     ELSE pc' = "name" /\ UNCHANGED <<out, exitCode>>
  /\ BootFrame
  /\ UNCHANGED <<cmds, manifest, env, reply, typed, answers, newProj>>

\* Lines 31-35: the name must match ^[a-z0-9-]+$.
B_NameCheck ==
  /\ BootRunning /\ pc = "name"
  /\ IF ValidProjectName(projName)
     THEN pc' = "dir" /\ UNCHANGED <<out, exitCode>>
     ELSE Say(<<"Error: Project name must be lowercase letters, numbers, and hyphens only",
                EmptyStr>>) /\ Exit(1)
  /\ BootFrame
  /\ UNCHANGED <<cmds, manifest, env, reply, typed, answers, newProj>>

\* Lines 37-41: the sibling directory must not exist.
B_DirCheck ==
  /\ BootRunning /\ pc = "dir"
  /\ IF siblingDir
     THEN Say(<<"Error: Directory already exists", projName>>) /\ Exit(1)
     ELSE pc' = "tools" /\ UNCHANGED <<out, exitCode>>
  /\ BootFrame
  /\ UNCHANGED <<cmds, manifest, env, reply, typed, answers, newProj>>

\* Lines 43-65: node and jq must be installed.
B_ToolCheck ==
  /\ BootRunning /\ pc = "tools"
  /\ LET missing == SelectInOrder(<<"node", "jq">>, absent) IN
       IF Len(missing) > 0
       THEN /\ out' = out \o << <<"Error: Missing required tools:", EmptyStr>> >>
                          \o ToolLines(missing)
            /\ Exit(1)
       ELSE pc' = "prompt" /\ UNCHANGED <<out, exitCode>>
  /\ BootFrame
  /\ UNCHANGED <<cmds, manifest, env, reply, typed, answers, newProj>>

\* Lines 84-111: the next `read -p`, followed by its default.
B_Prompt ==
  /\ BootRunning /\ pc = "prompt"
  /\ LET n == CountOf([i \in 1..Len(cmds) |-> cmds[i][1]], "read") + 1
         v == Prompts[n]
     IN  /\ n <= Len(Prompts)
         /\ \E line \in PromptTexts(v) :
              /\ typed' = [typed EXCEPT ![v] = line]
              /\ answers' = [answers EXCEPT
                               ![v] = OrDefault(ReadLine(line), PromptDefault(v, projName))]
         /\ Invoke("read", <<v>>)
         /\ pc' = IF n = Len(Prompts) THEN "confirm" ELSE "prompt"
  /\ BootFrame
  /\ UNCHANGED <<exitCode, out, manifest, env, reply, newProj>>

\* Line 129: the status after a reply r other than y or Y.
\* As in deploy-production.sh, where declining is a failure.
DeclineStatus_Mut(r) == 1

DeclineStatus(r) == 0

\* Lines 113-130: the summary and read -n 1 "Continue with these settings?".
B_Confirm ==
  /\ BootRunning /\ pc = "confirm"
  /\ \E r \in KeyReplies :
       /\ reply' = r
       /\ Invoke("read", <<"Continue with these settings?">>)
       /\ IF r \in { <<"y">>, <<"Y">> }
          THEN pc' = "copy" /\ UNCHANGED <<out, exitCode>>
          ELSE Say(<<"Cancelled.", EmptyStr>>) /\ Exit(DeclineStatus(r))
  /\ BootFrame
  /\ UNCHANGED <<manifest, env, typed, answers, newProj>>

\* Lines 136-150: cp -r of the template, then the removal of what must not be
\* inherited (.git, caches, env files, the template's own manifest).
B_CopyAndClean ==
  /\ BootRunning /\ pc = "copy"
  /\ cmds' = cmds \o << <<"cp -r", projName>>, <<"rm", EmptyStr>> >>
  /\ newProj' = [newProj EXCEPT !.exists = TRUE,
                                !.paths = (TemplateJunk \cup TemplateKept) \ TemplateJunk]
  /\ manifest' = NoManifest
  /\ pc' = "manifest"
  /\ BootFrame
  /\ UNCHANGED <<exitCode, out, env, reply, typed, answers>>

\* Lines 156-183: cat > .deployment-config.json << EOF.
B_WriteManifest ==
  /\ BootRunning /\ pc = "manifest"
  /\ Invoke("cat >", <<".deployment-config.json">>)
  /\ newProj' = [newProj EXCEPT !.paths = @ \cup {".deployment-config.json"},
                                !.raw = ManifestText(projName, answers)]
  /\ manifest' = ParseManifest(ManifestText(projName, answers))
  /\ pc' = "templates"
  /\ BootFrame
  /\ UNCHANGED <<exitCode, out, env, reply, typed, answers>>

\* Lines 189-234: the template scripts must all exist; they are then copied to
\* scripts/deploy and .github/workflows.
B_InstallScripts ==
  /\ BootRunning /\ pc = "templates"
  /\ \E templatesOk \in BOOLEAN :
       IF templatesOk
       THEN /\ Invoke("cp", <<"docs/templates">>)
            /\ newProj' = [newProj EXCEPT !.paths = @ \cup DeployScriptPaths]
            /\ pc' = "git"
            /\ UNCHANGED <<out, exitCode>>
       ELSE /\ Say(<<"Error: Missing template files:", EmptyStr>>)
            /\ Exit(1)
            /\ UNCHANGED <<cmds, newProj>>
  /\ BootFrame
  /\ UNCHANGED <<manifest, env, reply, typed, answers>>

\* Lines 240-257: git init; git checkout -b main; git add .; git commit;
\* git checkout -b preview; git checkout main.  A failing git command (for
\* instance a commit without a configured identity) ends the script.
B_GitInit ==
  /\ BootRunning /\ pc = "git"
  /\ \/ /\ cmds' = cmds \o << <<"git init", EmptyStr>>, <<"git commit", EmptyStr>>,
                              <<"git checkout -b", <<"preview">> >>,
                              <<"git checkout", <<"main">> >> >>
        /\ newProj' = [newProj EXCEPT
                         !.paths = @ \cup {".git"},
                         !.repo = [commits |-> 1,
                                   branches |-> { <<"main">>, <<"preview">> },
                                   head |-> <<"main">>]]
        /\ pc' = "files"
        /\ UNCHANGED exitCode
     \/ /\ cmds' = cmds \o << <<"git init", EmptyStr>>, <<"git commit", EmptyStr>> >>
        /\ newProj' = [newProj EXCEPT
                         !.paths = @ \cup {".git"},
                         !.repo = [commits |-> 0, branches |-> {}, head |-> <<"main">>]]
        /\ \E c \in FailCodes : Exit(c)
  /\ BootFrame
  /\ UNCHANGED <<out, manifest, env, reply, typed, answers>>

\* Lines 265-end: .env.local, the package.json update, README.md, the summary.
B_Finish ==
  /\ BootRunning /\ pc = "files"
  /\ cmds' = cmds \o << <<"cat >", <<".env.local">> >>, <<"node -e", <<"package.json">> >>,
                        <<"cat >", <<"README.md">> >> >>
  /\ newProj' = [newProj EXCEPT !.paths = @ \cup {".env.local", "README.md"}]
  /\ Say(<<"Project initialized", projName>>)
  /\ Exit(0)
  /\ BootFrame
  /\ UNCHANGED <<manifest, env, reply, typed, answers>>

\* Afterwards, in the new project: export_config_vars of a deployment script.
B_ExportInNewProject ==
  /\ tool = "init-new-project" /\ pc = "exited" /\ exitCode = 0
  /\ newProj.exists
  /\ env' = export_config_vars(manifest, absent)
  /\ pc' = "exported"
  /\ BootFrame
  /\ UNCHANGED <<exitCode, cmds, out, manifest, reply, typed, answers, newProj>>

InitBoot ==
  /\ tool = "init-new-project"
  /\ pc = "arg"
  /\ exitCode = -1
  /\ cmds = << >>
  /\ out = << >>
  /\ absent \in SUBSET {"node", "jq"}
  /\ manifest = NoManifest
  /\ curBranch = EmptyStr
  /\ env = NoEnv
  /\ sub = FALSE
  /\ FAILURES = 0
  /\ probeIdx = 1
  /\ probeLog = << >>
  /\ reply = EmptyStr
  /\ projName \in ProjectNames
  /\ siblingDir \in BOOLEAN
  /\ typed = NoAnswers
  /\ answers = NoAnswers
  /\ newProj = NoProject
  /\ SyncIdle

NextBoot ==
  \/ B_ArgCheck
  \/ B_NameCheck
  \/ B_DirCheck
  \/ B_ToolCheck
  \/ B_Prompt
  \/ B_Confirm
  \/ B_CopyAndClean
  \/ B_WriteManifest
  \/ B_InstallScripts
  \/ B_GitInit
  \/ B_Finish
  \/ B_ExportInNewProject

SpecBoot == InitBoot /\ [][NextBoot]_vars

----------------------------------------------------------------------------
(* The template sync engine: steps *)

MaxRuns == 2

counterVars == <<count, syncCount, skipCount, successCount, errorCount, changedCount>>

SyncFrame == UNCHANGED <<nonSyncVars, tool, argv, cwd, errexit, generator, runNo, start, prior>>

\* `((count++))` returns status 1 when count was 0; under set -e a shell that
\* applies errexit to (( )) leaves the script there.
CountIncrementFails(n, e) == e /\ n = 0

\* log_step at the head of push_to_default / pull_from_default.
StepLabel(c, dry) ==
  IF c = "push" THEN (IF dry THEN "DRY RUN: Pushing config" ELSE "Pushing config")
  ELSE (IF dry THEN "DRY RUN: Pulling config" ELSE "Pulling config")

\* The summary line that carries $count.
SummaryLabel(c, dry) ==
  IF c = "push" THEN (IF dry THEN "DRY RUN: Would push" ELSE "Pushed")
  ELSE (IF dry THEN "DRY RUN: Would pull" ELSE "Pulled")

\* sync-config.sh, lines 364-399 and the head of push_to_default /
\* pull_from_default (step line, count=0, backup directory).
SC_Main ==
  /\ SyncRunning("sync-config") /\ pc = "main"
  /\ IF Command \in {"push", "pull"}
     THEN IF cwd = DEFAULT_PATH
          THEN /\ Say(<<"You're in /default", << >>>>)
               /\ Exit(1)
               /\ UNCHANGED backups
          ELSE /\ pc' = "loop"
               /\ UNCHANGED exitCode
               /\ IF MakesBackupDir(CREATE_BACKUP, DRY_RUN)
                  THEN /\ \E sameSecond \in BOOLEAN :
                            backups' =
                              IF sameSecond /\ backups # << >> THEN backups
                              ELSE Append(backups,
                                     [root  |-> IF Command = "push" THEN DEFAULT_PATH ELSE cwd,
                                      files |-> [p \in Range(CONFIG_FILES) |-> NoFile]])
                       /\ out' = out \o << <<StepLabel(Command, DRY_RUN), << >>>>,
                                        <<"Backup directory", << >>>> >>
                  ELSE /\ UNCHANGED backups
                       /\ Say(<<StepLabel(Command, DRY_RUN), << >>>>)
     ELSE IF Command \in {"help", "--help", "-h"}
     THEN /\ Say(<<"Usage", << >>>>) /\ Exit(0) /\ UNCHANGED backups
     ELSE /\ out' = out \o << <<"Unknown command", <<Command>>>>, <<"Usage", << >>>> >>
          /\ Exit(1)
          /\ UNCHANGED backups
  /\ Command # "init"
  /\ UNCHANGED <<cmds, hub, projects, idx, counterVars>>
  /\ SyncFrame

\* The init branch of the main case (383-389) and the head of init_project
\* (242-258): the options are ignored, DRY_RUN included.
SC_InitMain ==
  /\ SyncRunning("sync-config") /\ pc = "main" /\ Command = "init"
  /\ IF NEW_PROJECT_NAME = ""
     THEN /\ Say(<<"Usage: sync-config.sh init <project-name>", << >>>>)
          /\ Exit(1)
          /\ UNCHANGED <<cmds, projects>>
     ELSE IF projects[NEW_PROJECT_NAME].exists
     THEN /\ Say(<<"Project already exists", <<NEW_PROJECT_NAME>>>>)
          /\ Exit(1)
          /\ UNCHANGED <<cmds, projects>>
     ELSE /\ projects' = [projects EXCEPT ![NEW_PROJECT_NAME] =
                             [exists |-> TRUE, files |-> EmptyFiles, commits |-> 0,
                              dirty |-> FALSE, repo |-> TRUE]]
          /\ Invoke("git init -b main", <<NEW_PROJECT_NAME>>)
          /\ out' = out \o << <<"Initializing new project", <<NEW_PROJECT_NAME>>>>,
                              <<"Initialized git repository (main branch)", << >>>> >>
          /\ pc' = "init_loop"
          /\ UNCHANGED exitCode
  /\ UNCHANGED <<hub, backups, idx, counterVars>>
  /\ SyncFrame

\* One iteration of the CONFIG_FILES loop of init_project (261-270).
SC_InitEntry ==
  /\ SyncRunning("sync-config") /\ pc = "init_loop" /\ idx <= Len(CONFIG_FILES)
  /\ LET file == CONFIG_FILES[idx] IN
     IF Exists(hub, file)
     THEN /\ projects' = [projects EXCEPT ![NEW_PROJECT_NAME].files[file] = hub[file]]
          /\ Say(<<"Copied", <<file>>>>)
          /\ count' = count + 1
          /\ IF CountIncrementFails(count, errexit)
             THEN Exit(1) /\ UNCHANGED idx
             ELSE /\ UNCHANGED exitCode
                  /\ IF idx = Len(CONFIG_FILES)
                     THEN pc' = "init_templates" /\ idx' = 1
                     ELSE idx' = idx + 1 /\ UNCHANGED pc
     ELSE /\ IF idx = Len(CONFIG_FILES)
             THEN pc' = "init_templates" /\ idx' = 1
             ELSE idx' = idx + 1 /\ UNCHANGED pc
          /\ UNCHANGED <<projects, out, count, exitCode>>
  /\ UNCHANGED <<cmds, hub, backups, syncCount, skipCount, successCount, errorCount, changedCount>>
  /\ SyncFrame

\* One iteration of the TEMPLATE_FILES loop of init_project (273-281); a cp
\* that fails ends the script under set -e.
SC_InitTemplate ==
  /\ SyncRunning("sync-config") /\ pc = "init_templates" /\ idx <= Len(TEMPLATE_FILES)
  /\ LET t == TEMPLATE_FILES[idx]
         files == projects[NEW_PROJECT_NAME].files
     IN
     IF ~Exists(hub, t.template)
     THEN idx' = idx + 1 /\ UNCHANGED <<projects, out, pc, exitCode>>
     ELSE IF TargetDirExists(files, t.target)
     THEN /\ projects' = [projects EXCEPT ![NEW_PROJECT_NAME].files[t.target] = hub[t.template]]
          /\ Say(<<"Created from template", <<t.target>>>>)
          /\ idx' = idx + 1
          /\ UNCHANGED <<pc, exitCode>>
     ELSE /\ Say(<<"cp: No such file or directory", <<t.target>>>>)
          /\ Exit(1)
          /\ UNCHANGED <<projects, idx>>
  /\ UNCHANGED <<cmds, hub, backups, counterVars>>
  /\ SyncFrame

\* The README and the closing lines of init_project (283-320).
SC_InitFinish ==
  /\ SyncRunning("sync-config") /\ pc = "init_templates" /\ idx > Len(TEMPLATE_FILES)
  /\ projects' = [projects EXCEPT ![NEW_PROJECT_NAME].files["README.md"] = File(<<NEW_PROJECT_NAME>>)]
  /\ Say(<<"Project initialized", <<count>>>>)
  /\ Exit(0)
  /\ UNCHANGED <<cmds, hub, backups, idx, counterVars>>
  /\ SyncFrame

\* Lines 107-116 / 181-190: the conflict warning, printed when the destination
\* exists, --force is not given and diff -rq finds a difference.
\* A warning printed with --force as well.
WarnsConflict_Mut(destExists, force, differs) == destExists /\ differs

WarnsConflict(destExists, force, differs) == destExists /\ ~force /\ differs

\* Lines 123-127 / 197-201: the copy that goes into the backup directory is the
\* destination's, taken before the rm -rf.
\* A snapshot taken after the path has been recopied.
BackedUp_Mut(dstCopy, srcCopy) == srcCopy

BackedUp(dstCopy, srcCopy) == dstCopy

\* `cp -r path backup/dir/`: the copy replaces a file of that name; copied onto
\* a directory already in the backup (a run within the same second) it is
\* merged into it.
BackupCopy(old, copy, isDir) ==
  IF isDir /\ old # NoFile /\ old # copy
  THEN File(old[1] \o <<"+">> \o copy[1])
  ELSE copy

\* One iteration of the for loop of push_to_default (103-142) or
\* pull_from_default (177-216).
SC_Entry ==
  /\ SyncRunning("sync-config") /\ pc = "loop" /\ idx <= Len(CONFIG_FILES)
  /\ LET file   == CONFIG_FILES[idx]
         src    == IF Command = "push" THEN projects[cwd].files ELSE hub
         dst    == IF Command = "push" THEN hub ELSE projects[cwd].files
         warn   == IF WarnsConflict(Exists(dst, file), FORCE, src[file] # dst[file])
                   THEN << <<IF DRY_RUN THEN "Would overwrite" ELSE "Overwriting", <<file>>>> >>
                   ELSE << >>
         newDst == [dst EXCEPT ![file] = CleanCopy(src[file], dst[file])]
     IN
     IF Exists(src, file)
     THEN /\ IF DRY_RUN
             THEN /\ out' = out \o warn \o << <<"Would copy", <<file>>>> >>
                  /\ UNCHANGED <<hub, projects, backups>>
             ELSE /\ out' = out \o warn \o << <<"Copied", <<file>>>> >>
                  /\ backups' = IF CREATE_BACKUP /\ Exists(dst, file)
                                THEN [backups EXCEPT ![Len(backups)].files[file] =
                                        BackupCopy(@, BackedUp(dst[file], src[file]),
                                                   file \in DirectoryEntries)]
                                ELSE backups
                  /\ IF Command = "push"
                     THEN hub' = newDst /\ UNCHANGED projects
                     ELSE projects' = [projects EXCEPT ![cwd].files = newDst] /\ UNCHANGED hub
          /\ count' = count + 1
          /\ IF CountIncrementFails(count, errexit)
             THEN Exit(1) /\ UNCHANGED idx
             ELSE idx' = idx + 1 /\ UNCHANGED <<pc, exitCode>>
     ELSE /\ Say(<<"Skipped", <<file>>>>)
          /\ idx' = idx + 1
          /\ UNCHANGED <<hub, projects, backups, count, pc, exitCode>>
  /\ UNCHANGED <<cmds, syncCount, skipCount, successCount, errorCount, changedCount>>
  /\ SyncFrame

\* After the loop: the summary (144-158, 218-239) and, for a real pull, the
\* CLAUDE.md generator when the project has one.
SC_Summary ==
  /\ SyncRunning("sync-config") /\ pc = "loop" /\ idx > Len(CONFIG_FILES)
  /\ LET summary == << <<SummaryLabel(Command, DRY_RUN), <<count>>>> >>
         backed  == IF ~DRY_RUN /\ CREATE_BACKUP
                    THEN << <<"Backup created at", << >>>> >> ELSE << >>
         runsGen == Command = "pull" /\ ~DRY_RUN /\ generator # "absent"
         genWorks == generator = "works" /\ Exists(hub, "CLAUDE.md")
     IN
     /\ IF runsGen
        THEN /\ Invoke("bash", <<"scripts/generate-claude-md.sh">>)
             /\ IF genWorks
                THEN /\ projects' = [projects EXCEPT ![cwd].files["CLAUDE.md"] =
                                        Generated(hub["CLAUDE.md"])]
                     /\ out' = out \o summary \o backed
                ELSE /\ UNCHANGED projects
                     /\ out' = out \o summary \o backed
                                 \o << <<"Could not generate CLAUDE.md", << >>>> >>
        ELSE /\ UNCHANGED <<cmds, projects>>
             /\ out' = out \o summary \o backed
     /\ Exit(0)
  /\ UNCHANGED <<hub, backups, idx, counterVars>>
  /\ SyncFrame

\* sync-to-project.js lines 11-28.
T_Main ==
  /\ SyncRunning("sync-to-project") /\ pc = "main"
  /\ IF targetProject = ""
     THEN Say(<<"Error: Please provide target project path", << >>>>) /\ Exit(1)
     ELSE IF targetProject \notin DOMAIN projects \/ ~projects[targetProject].exists
     THEN Say(<<"Error: Project path does not exist", <<targetProject>>>>) /\ Exit(1)
     ELSE /\ Say(<<IF dryRun THEN "(DRY RUN - no files will be modified)" ELSE "Syncing", << >>>>)
          /\ pc' = "loop" /\ UNCHANGED exitCode
  /\ UNCHANGED <<cmds, hub, projects, backups, idx, counterVars>>
  /\ SyncFrame

\* One iteration of filesToSync.forEach (63-96).
T_Entry ==
  /\ SyncRunning("sync-to-project") /\ pc = "loop" /\ idx <= Len(filesToSync)
  /\ LET st == SyncEntry(filesToSync[idx], hub,
                         [files |-> projects[targetProject].files, syncCount |-> syncCount,
                          skipCount |-> skipCount, lines |-> out], dryRun)
     IN /\ projects' = [projects EXCEPT ![targetProject].files = st.files]
        /\ syncCount' = st.syncCount
        /\ skipCount' = st.skipCount
        /\ out' = st.lines
  /\ idx' = idx + 1
  /\ UNCHANGED <<pc, exitCode, cmds, hub, backups, count, successCount, errorCount, changedCount>>
  /\ SyncFrame

\* Lines 98-115; the script ends with status 0.
T_Summary ==
  /\ SyncRunning("sync-to-project") /\ pc = "loop" /\ idx > Len(filesToSync)
  /\ out' = out \o << <<"Summary: Synced", <<syncCount>>>>, <<"Summary: Skipped", <<skipCount>>>> >>
  /\ Exit(0)
  /\ UNCHANGED <<cmds, hub, projects, backups, idx, counterVars>>
  /\ SyncFrame

VersionFile == ".dev-standards-version"

\* sync-all-projects.js line 58: the version of a project that has no stamp.
NotInstalled == <<"not-installed">>

\* readFileSync(versionFile, 'utf8').trim() (lines 33-35 and 56-58).
\* The stamp taken byte for byte.
ReadVersion_Mut(c) == c

ReadVersion(c) == Trim(c)

\* sync-all-projects.js lines 33-39: readFileSync throws when the template has
\* no version stamp, and node ends with status 1.
A_Main ==
  /\ SyncRunning("sync-all-projects") /\ pc = "main"
  /\ IF ~Exists(hub, VersionFile)
     THEN Say(<<"ENOENT", <<VersionFile>>>>) /\ Exit(1)
     ELSE /\ Say(<<IF dryRun THEN "(DRY RUN MODE)" ELSE "Syncing dev-standards to all projects", << >>>>)
          /\ pc' = "loop" /\ UNCHANGED exitCode
  /\ UNCHANGED <<cmds, hub, projects, backups, idx, counterVars>>
  /\ SyncFrame

\* One iteration of PROJECTS.forEach (45-105); the child sync-to-project.js
\* and the git commands run to their end inside it.
A_Project ==
  /\ SyncRunning("sync-all-projects") /\ pc = "loop" /\ idx <= Len(PROJECTS)
  /\ LET name == PROJECTS[idx]
         p    == projects[name]
         currentVersion == ReadVersion(hub[VersionFile][1])
         projectVersion == IF Exists(p.files, VersionFile)
                           THEN ReadVersion(p.files[VersionFile][1])
                           ELSE NotInstalled
         child == SyncEntries(filesToSync, hub,
                              [files |-> p.files, syncCount |-> 0, skipCount |-> 0,
                               lines |-> << >>], FALSE)
         status == p.dirty \/ child.files # p.files
         updating == << <<"Updating", <<name>>>> >>
     IN
     IF ~p.exists
     THEN /\ Say(<<"Project not found, skipping", <<name>>>>)
          /\ skipCount' = skipCount + 1
          /\ UNCHANGED <<cmds, projects, successCount, errorCount>>
     ELSE IF projectVersion = currentVersion
     THEN /\ Say(<<"Already up to date", <<name>>>>)
          /\ skipCount' = skipCount + 1
          /\ UNCHANGED <<cmds, projects, successCount, errorCount>>
     ELSE IF dryRun
     THEN /\ out' = out \o updating \o << <<"[DRY RUN] Would sync", <<name>>>> >>
          /\ UNCHANGED <<cmds, projects, skipCount, successCount, errorCount>>
     ELSE IF ~autoCommit
     THEN /\ cmds' = Append(cmds, <<"node sync-to-project.js", <<name>>>>)
          /\ out' = out \o updating \o child.lines
          /\ projects' = [projects EXCEPT ![name].files = child.files, ![name].dirty = status]
          /\ successCount' = successCount + 1
          /\ UNCHANGED <<skipCount, errorCount>>
     ELSE IF ~p.repo
     THEN /\ cmds' = cmds \o << <<"node sync-to-project.js", <<name>>>>,
                                <<"git status --porcelain", <<name>>>> >>
          /\ out' = out \o updating \o child.lines \o << <<"Error syncing", <<name>>>> >>
          /\ projects' = [projects EXCEPT ![name].files = child.files]
          /\ errorCount' = errorCount + 1
          /\ UNCHANGED <<skipCount, successCount>>
     ELSE IF status
     THEN /\ cmds' = cmds \o << <<"node sync-to-project.js", <<name>>>>,
                                <<"git status --porcelain", <<name>>>>,
                                <<"git add .", <<name>>>>,
                                <<"git commit", <<name>>>> >>
          /\ out' = out \o updating \o child.lines \o << <<"Changes committed", <<name>>>> >>
          /\ projects' = [projects EXCEPT ![name].files = child.files,
                                          ![name].dirty = FALSE,
                                          ![name].commits = @ + 1]
          /\ successCount' = successCount + 1
          /\ UNCHANGED <<skipCount, errorCount>>
     ELSE /\ cmds' = cmds \o << <<"node sync-to-project.js", <<name>>>>,
                                <<"git status --porcelain", <<name>>>> >>
          /\ out' = out \o updating \o child.lines \o << <<"No changes to commit", <<name>>>> >>
          /\ projects' = [projects EXCEPT ![name].files = child.files]
          /\ successCount' = successCount + 1
          /\ UNCHANGED <<skipCount, errorCount>>
  /\ idx' = idx + 1
  /\ UNCHANGED <<pc, exitCode, hub, backups, count, syncCount, changedCount>>
  /\ SyncFrame

\* Line 130: process.exit(errorCount > 0 ? 1 : 0).
\* A status that reports success whatever happened.
SyncAllStatus_Mut(errors) == 0

SyncAllStatus(errors) == IF errors > 0 THEN 1 ELSE 0

\* Lines 107-130.
A_Summary ==
  /\ SyncRunning("sync-all-projects") /\ pc = "loop" /\ idx > Len(PROJECTS)
  /\ out' = out \o << <<"Summary: Synced", <<successCount>>>>,
                      <<"Summary: Skipped", <<skipCount>>>>,
                      <<"Summary: Errors", <<errorCount>>>> >>
  /\ Exit(SyncAllStatus(errorCount))
  /\ UNCHANGED <<cmds, hub, projects, backups, idx, counterVars>>
  /\ SyncFrame

\* pull-from-source.js lines 134-142.
P_Main ==
  /\ SyncRunning("pull-from-source") /\ pc = "main"
  /\ IF ~projects[SOURCE_PROJECT].exists
     THEN Say(<<"Error: Source project not found", <<SOURCE_PROJECT>>>>) /\ Exit(1)
     ELSE /\ Say(<<IF dryRun THEN "(DRY RUN - no files will be modified)" ELSE "Pulling configs", << >>>>)
          /\ pc' = "loop" /\ UNCHANGED exitCode
  /\ UNCHANGED <<cmds, hub, projects, backups, idx, counterVars>>
  /\ SyncFrame

\* Line 169: sourceContent === destContent, negated.
\* A pull that takes every file for changed.
FilesDiffer_Mut(sourceContent, destContent) == TRUE

FilesDiffer(sourceContent, destContent) == sourceContent # destContent

\* One iteration of FILES_TO_PULL.forEach (148-191).
P_Entry ==
  /\ SyncRunning("pull-from-source") /\ pc = "loop" /\ idx <= Len(FILES_TO_PULL)
  /\ LET e == FILES_TO_PULL[idx]
         from == projects[SOURCE_PROJECT].files
         sourceContent == from[e.source][1]
         destContent == IF Exists(hub, e.dest) THEN hub[e.dest][1] ELSE EmptyStr
     IN
     IF ~Exists(from, e.source)
     THEN IF e.optional
          THEN /\ Say(<<"Source not found (optional), skipping", <<e.source>>>>)
               /\ skipCount' = skipCount + 1
               /\ idx' = idx + 1
               /\ UNCHANGED <<pc, exitCode, hub, changedCount>>
          ELSE /\ Say(<<"Source not found", <<e.source>>>>)
               /\ Exit(1)
               /\ UNCHANGED <<hub, idx, skipCount, changedCount>>
     ELSE IF ~FilesDiffer(sourceContent, destContent)
     THEN /\ Say(<<"Already up to date", <<e.dest>>>>)
          /\ skipCount' = skipCount + 1
          /\ idx' = idx + 1
          /\ UNCHANGED <<pc, exitCode, hub, changedCount>>
     ELSE /\ IF dryRun
             THEN Say(<<"[DRY RUN] Would be updated", <<e.dest>>>>) /\ UNCHANGED hub
             ELSE /\ Say(<<"Updated", <<e.dest>>>>)
                  /\ hub' = [hub EXCEPT ![e.dest] = File(sourceContent)]
          /\ changedCount' = changedCount + 1
          /\ idx' = idx + 1
          /\ UNCHANGED <<pc, exitCode, skipCount>>
  /\ UNCHANGED <<cmds, projects, backups, count, syncCount, successCount, errorCount>>
  /\ SyncFrame

\* Lines 193-213.
P_Summary ==
  /\ SyncRunning("pull-from-source") /\ pc = "loop" /\ idx > Len(FILES_TO_PULL)
  /\ out' = out \o << <<"Summary: Updated", <<changedCount>>>>,
                      <<"Summary: Up to date", <<skipCount>>>> >>
  /\ Exit(0)
  /\ UNCHANGED <<cmds, hub, projects, backups, idx, counterVars>>
  /\ SyncFrame

\* The same command line is entered again, nothing else having changed.
RunAgain ==
  /\ tool \in SyncTools /\ pc = "exited" /\ runNo < MaxRuns
  /\ prior' = [hub |-> hub, projects |-> projects, out |-> out, exitCode |-> exitCode]
  /\ start' = Snapshot
  /\ runNo' = runNo + 1
  /\ pc' = "main" /\ exitCode' = -1 /\ out' = << >>
  /\ idx' = 1
  /\ count' = 0 /\ syncCount' = 0 /\ skipCount' = 0
  /\ successCount' = 0 /\ errorCount' = 0 /\ changedCount' = 0
  /\ UNCHANGED <<nonSyncVars, tool, cmds, argv, cwd, errexit, generator, hub, projects, backups>>

----------------------------------------------------------------------------
(* The template sync engine as one specification *)

\* Option prefixes of sync-config.sh, each option at most once.
FlagPrefixes ==
  { d \o b \o f : d \in {<< >>, <<"--dry-run">>}, b \in {<< >>, <<"--backup">>},
                  f \in {<< >>, <<"--force">>} }

SyncConfigArgs ==
  { fl \o <<c>> : fl \in FlagPrefixes, c \in {"push", "pull"} }
    \cup { <<"-d", "pull">>, <<"pull", "--dry-run">>, <<"push", "--dry-run">>,
           << >>, <<"help">>, <<"sync">> }

\* Command lines of `sync-config.sh init`.
SyncInitArgs == { <<"init">>, <<"init", "authormagic">>, <<"--dry-run", "init", "authormagic">> }

SyncToProjectArgs ==
  { << >>, <<"medicaremagic">>, <<"medicaremagic", "--dry-run">>,
    <<"--dry-run", "medicaremagic">>, <<"authormagic">> }

SyncAllArgs ==
  { d \o a : d \in {<< >>, <<"--dry-run">>}, a \in {<< >>, <<"--auto-commit">>} }

PullFromSourceArgs == { << >>, <<"--dry-run">> }

Dir(files, dirty, repo) ==
  [exists |-> TRUE, files |-> Over(ProjectPaths, files), commits |-> 0,
   dirty |-> dirty, repo |-> repo]

DeployIdle ==
  /\ absent = {} /\ manifest = NoManifest /\ curBranch = EmptyStr /\ env = NoEnv
  /\ sub = FALSE /\ FAILURES = 0 /\ probeIdx = 1 /\ probeLog = << >> /\ reply = EmptyStr

InitSyncConfig ==
  /\ errexit \in BOOLEAN
  /\ \/ /\ argv \in SyncInitArgs
        /\ cwd = DEFAULT_PATH
        /\ \E a \in {NoFile, File(One)}, b \in {NoFile, File(Two)}, c \in {NoFile, File(One)},
              ta \in {NoFile, File(Two)}, tc \in {NoFile, File(Two)} :
             hub = Over(HubPaths, (".claude/settings.json" :> a) @@ ("docs/standards" :> b)
                                    @@ ("CLAUDE.md" :> c)
                                    @@ (".claude/settings.json.template" :> ta)
                                    @@ ("CLAUDE.md.template" :> tc))
        /\ \E o \in {NoDir, Dir(("README.md" :> File(One)), FALSE, TRUE)} :
             projects = [NoDirs EXCEPT !["authormagic"] = o]
     \/ /\ argv \in SyncConfigArgs
        /\ cwd = "medicaremagic"
        /\ \E a \in {NoFile, File(One)}, b \in {NoFile, File(Two)}, c \in {NoFile, File(One)} :
             hub = Over(HubPaths, (".claude/settings.json" :> a) @@ ("docs/standards" :> b)
                                    @@ ("CLAUDE.md" :> c))
        /\ \E t \in [Range(CONFIG_FILES) -> {NoFile, File(One), File(Two)}] :
             projects = [NoDirs EXCEPT !["medicaremagic"] = Dir(t, FALSE, TRUE)]
     \/ /\ argv \in SyncConfigArgs
        /\ cwd = DEFAULT_PATH
        /\ hub = Over(HubPaths, [p \in Range(CONFIG_FILES) |-> File(One)])
        /\ projects = NoDirs
  /\ generator \in (IF "pull" \in Range(argv) THEN {"absent", "fails", "works"} ELSE {"absent"})

InitSyncToProject ==
  /\ argv \in SyncToProjectArgs
  /\ cwd = DEFAULT_PATH /\ errexit = FALSE /\ generator = "absent"
  /\ hub \in { Over(HubPaths, t) :
                 t \in [{filesToSync[i].src : i \in 1..Len(filesToSync)} -> {NoFile, File(One)}] }
  /\ \E a \in {NoFile, File(One), File(Two)}, b \in {NoFile, File(Two)},
        v \in {NoFile, File(One), File(Two)} :
       projects = [NoDirs EXCEPT !["medicaremagic"] =
                     Dir((".prettierrc" :> a) @@ ("scripts/validate-env.js" :> b)
                           @@ (VersionFile :> v), FALSE, TRUE)]

InitSyncAll ==
  /\ argv \in SyncAllArgs
  /\ cwd = DEFAULT_PATH /\ errexit = FALSE /\ generator = "absent"
  /\ \E v \in {NoFile, File(One), File(OneNl), File(NotInstalled)} :
       hub = Over(HubPaths, ("configs/.prettierrc" :> File(One))
                              @@ ("scripts/validate-env.js" :> File(One))
                              @@ (VersionFile :> v))
  /\ \E m \in {NoDir} \cup
              { Dir((".prettierrc" :> a) @@ ("scripts/validate-env.js" :> b)
                      @@ (VersionFile :> v), dirty, repo) :
                  a \in {File(One), File(Two)}, b \in {NoFile, File(Two)},
                  v \in {NoFile, File(One), File(Two)},
                  dirty \in BOOLEAN, repo \in BOOLEAN },
        o \in {NoDir} \cup { Dir((VersionFile :> v), FALSE, TRUE) : v \in {NoFile, File(One)} } :
       projects = [n \in Range(PROJECTS) |-> IF n = "medicaremagic" THEN m ELSE o]

InitPullFromSource ==
  /\ argv \in PullFromSourceArgs
  /\ cwd = DEFAULT_PATH /\ errexit = FALSE /\ generator = "absent"
  /\ \E a \in {NoFile, File(One), File(Two)}, b \in {NoFile, File(One)}, c \in {NoFile, File(One)} :
       hub = Over(HubPaths, ("configs/.prettierrc" :> a) @@ ("configs/tsconfig.base.json" :> b)
                              @@ ("scripts/validate-env.js" :> c))
  /\ \E m \in {NoDir} \cup
              { Dir((".prettierrc" :> a) @@ ("tsconfig.json" :> b)
                      @@ ("scripts/validate-env.js" :> c), FALSE, TRUE) :
                  a \in {NoFile, File(EmptyStr), File(One)}, b \in {NoFile, File(One)},
                  c \in {NoFile, File(One)} } :
       projects = [NoDirs EXCEPT ![SOURCE_PROJECT] = m]

InitSync ==
  /\ tool \in SyncTools
  /\ pc = "main" /\ exitCode = -1 /\ cmds = << >> /\ out = << >>
  /\ DeployIdle
  /\ BootIdle
  /\ \/ tool = "sync-config" /\ InitSyncConfig
     \/ tool = "sync-to-project" /\ InitSyncToProject
     \/ tool = "sync-all-projects" /\ InitSyncAll
     \/ tool = "pull-from-source" /\ InitPullFromSource
  /\ backups = << >>
  /\ idx = 1
  /\ count = 0 /\ syncCount = 0 /\ skipCount = 0
  /\ successCount = 0 /\ errorCount = 0 /\ changedCount = 0
  /\ runNo = 1
  /\ start = Snapshot
  /\ prior = NoPrior

NextSync ==
  \/ SC_Main
  \/ SC_Entry
  \/ SC_Summary
  \/ SC_InitMain
  \/ SC_InitEntry
  \/ SC_InitTemplate
  \/ SC_InitFinish
  \/ T_Main
  \/ T_Entry
  \/ T_Summary
  \/ A_Main
  \/ A_Project
  \/ A_Summary
  \/ P_Main
  \/ P_Entry
  \/ P_Summary
  \/ RunAgain

SpecSync == InitSync /\ [][NextSync]_vars

----------------------------------------------------------------------------
(* Properties of the deployment scripts (checked under SpecDeploy) *)

CmdNames == { cmds[i][1] : i \in 1..Len(cmds) }

\* A manifest is present and parses, and the tools that read it are installed.
ManifestReadable == manifest.state = "ok"

\* C4: deploy-preview run on a current branch that is neither the manifest's
\* preview branch nor prefixed by feature/ never gets past the branch check:
\* it invokes no git push, no validation, no PR creation, no wait and no
\* verification, and when it has ended its exit status is non-zero.
C4_PreviewBranchGate ==
  ( /\ tool = "deploy-preview"
    /\ ManifestReadable
    /\ curBranch # manifest.fields.previewBranch
    /\ ~IsFeatureBranch(curBranch) )
  => /\ CmdNames \cap {"git push", "npm run validate-production", "gh pr create",
                       "sleep", "bash verify-preview.sh", "git status -s"} = {}
     /\ pc \in {"prereq", "export", "branch", "exited"}
     /\ exitCode # 0

\* Witness of C4: the run on branch hotfix has ended at the branch check.
C4_Witness ==
  /\ tool = "deploy-preview"
  /\ ManifestReadable
  /\ curBranch = <<"hotfix">>
  /\ pc = "exited" /\ exitCode = 1
  /\ Len(out) = 1 /\ out[1][1] = "ERROR: Must be on preview or feature/* branch"

\* C5: deploy-production run on any current branch other than the manifest's
\* preview branch ends with a non-zero status at the branch check: before the
\* preview health probe, before the confirmation prompt, and with no git pull,
\* no validation and no gh pr create.
C5_ProductionBranchGate ==
  ( /\ tool = "deploy-production"
    /\ ManifestReadable
    /\ curBranch # manifest.fields.previewBranch )
  => /\ CmdNames \cap {"curl", "read", "git pull", "npm run validate-production",
                       "gh pr create"} = {}
     /\ pc \in {"prereq", "ghAuth", "export", "branch", "exited"}
     /\ exitCode # 0

\* Witness of C5: on a feature branch the run has ended at the branch check.
C5_Witness ==
  /\ tool = "deploy-production"
  /\ ManifestReadable
  /\ IsFeatureBranch(curBranch)
  /\ curBranch # manifest.fields.previewBranch
  /\ pc = "exited" /\ exitCode = 1
  /\ out[Len(out)][1] = "ERROR: Production deploys must come from preview branch"

FailureLine == <<"   Failed", EmptyStr>>

C10_ProductionOnlyOpensPr ==
  tool = "deploy-production"
  => /\ CmdNames \subseteq {"gh auth status", "curl", "read", "git pull",
                            "npm run validate-production", "gh pr create"}
     /\ \A i \in 1..Len(cmds) :
          cmds[i][1] = "gh pr create"
          => /\ ManifestReadable
             /\ cmds[i][2] = <<manifest.fields.productionBranch,
                               manifest.fields.previewBranch>>
             /\ i = Len(cmds)
     /\ ("gh pr create" \in CmdNames => pc \in {"nextSteps", "exited"})

\* Witness of C10: a run that opened the pull request and ended.
C10_Witness ==
  /\ tool = "deploy-production" /\ pc = "exited" /\ exitCode = 0
  /\ cmds[Len(cmds)] = <<"gh pr create", << <<"main">>, <<"preview">> >> >>

----------------------------------------------------------------------------
(* Properties of init-new-project.sh (checked under SpecBoot) *)

\* C7: for a manifest written by init-new-project.sh, export_config_vars in
\* the new project returns the project name, GitHub owner, repository and
\* Vercel project name the script collected (a blank repository or Vercel
\* name being the project name), PREVIEW_URL =
\* https://<vercelProjectName>-git-preview-<team>.vercel.app, PRODUCTION_URL =
\* https://<domain>, PREVIEW_BRANCH = preview and PRODUCTION_BRANCH = main.
C7_ManifestRoundTrip ==
  (tool = "init-new-project" /\ pc = "exported")
  => /\ env.PROJECT_NAME = projName
     /\ env.GITHUB_OWNER = ReadLine(typed.GITHUB_OWNER)
     /\ env.GITHUB_REPO = OrDefault(ReadLine(typed.GITHUB_REPO), projName)
     /\ env.VERCEL_PROJECT_NAME = OrDefault(ReadLine(typed.VERCEL_PROJECT_NAME), projName)
     /\ env.PREVIEW_URL = <<"https://">> \o answers.VERCEL_PROJECT_NAME
                            \o <<"-git-preview-">> \o answers.VERCEL_TEAM
                            \o <<".vercel.app">>
     /\ env.PRODUCTION_URL = <<"https://">> \o answers.PRODUCTION_DOMAIN
     /\ env.PREVIEW_BRANCH = <<"preview">>
     /\ env.PRODUCTION_BRANCH = <<"main">>

\* C8: init-new-project.sh given a name with a character other than a
\* lowercase letter, a digit or a hyphen, or a name whose sibling directory
\* exists, reads no prompt and creates or changes nothing, and when it has
\* ended its exit status is 1.
C8_BootstrapRejection ==
  ( /\ tool = "init-new-project"
    /\ \/ \E i \in 1..Len(projName) : projName[i] \notin LowerAlnumHyphen
       \/ siblingDir )
  => /\ cmds = << >>
     /\ newProj = NoProject
     /\ pc \in {"arg", "name", "dir", "exited"}
     /\ exitCode \in {-1, 1}

\* Witness of C8: the name "A_" was refused by the name check.
C8_Witness ==
  /\ tool = "init-new-project"
  /\ projName = <<"A", "_">>
  /\ ~siblingDir
  /\ pc = "exited" /\ exitCode = 1
  /\ out[1][1] = "Error: Project name must be lowercase letters, numbers, and hyphens only"

----------------------------------------------------------------------------
(* Properties of the template sync engine (checked under SpecSync) *)

\* The dry-run option as each tool reads it from its command line.
DryRunInEffect ==
  \/ tool = "sync-config" /\ DRY_RUN /\ Command \in {"push", "pull"}
  \/ tool \in {"sync-to-project", "sync-all-projects", "pull-from-source"} /\ dryRun

\* A run of push, pull or syncToProject that writes.
RealCopyRun ==
  \/ tool = "sync-config" /\ Command \in {"push", "pull"} /\ ~DRY_RUN /\ cwd # DEFAULT_PATH
  \/ tool = "sync-to-project" /\ ~dryRun

CopiedLines == { i \in 1..Len(out) : out[i][1] = "Copied" }

\* C1: while and after a sync tool runs with its dry-run option in effect
\* (sync-config.sh push or pull, sync-to-project, sync-all-projects,
\* pull-from-source; any other flags, any contents), the template directory
\* and every project directory are as they were when the run began: no path
\* is created, removed or rewritten, no backup directory exists that did not
\* exist before, no commit is made and no child process or git command runs.
C1_DryRunNonMutation ==
  (tool \in SyncTools /\ DryRunInEffect)
  => /\ hub = start.hub
     /\ projects = start.projects
     /\ backups = start.backups
     /\ cmds = << >>

\* Witness of C1: `sync-config.sh --dry-run --backup pull` ran to its end over
\* three paths of the template, one of them differing in the project.
C1_Witness ==
  /\ tool = "sync-config" /\ argv = <<"--dry-run", "--backup", "pull">>
  /\ pc = "exited" /\ exitCode = 0 /\ count = 3
  /\ \E i \in 1..Len(out) : out[i][1] = "Would overwrite"
  /\ \E i \in 1..Len(out) : out[i][1] = "Would copy"

C3_OptionalNeverOverwritten ==
  (tool \in {"sync-to-project", "sync-all-projects"})
  => \A n \in Range(PROJECTS) : \A i \in 1..Len(filesToSync) :
       LET e      == filesToSync[i]
           before == start.projects[n].files[e.dest]
           after  == projects[n].files[e.dest]
       IN e.optional =>
            /\ before # NoFile => after = before
            /\ after # before => (before = NoFile /\ after = hub[e.src])

\* Witness of C3: a real sync-to-project run ended having passed over an
\* existing scripts/validate-env.js that differs from the template's, and
\* having rewritten .prettierrc.
C3_Witness ==
  /\ tool = "sync-to-project" /\ argv = <<"medicaremagic">>
  /\ pc = "exited" /\ exitCode = 0
  /\ start.projects["medicaremagic"].files["scripts/validate-env.js"] = File(Two)
  /\ hub["scripts/validate-env.js"] = File(One)
  /\ skipCount = 1
  /\ projects["medicaremagic"].files[".prettierrc"] # start.projects["medicaremagic"].files[".prettierrc"]

\* C9 as stated: after `sync-config.sh pull` with no flags, every allowlisted
\* path whose template and project copies were identical is untouched and not
\* reported as copied, every path of the template that the project lacked
\* holds the template's content, the reported count is the number of paths
\* created or changed, and the run ends without error.
C9_PullAppliesOnlyChanges ==
  (tool = "sync-config" /\ argv = <<"pull">> /\ cwd # DEFAULT_PATH /\ generator = "absent"
     /\ runNo = 1 /\ pc = "exited")
  => LET before  == start.projects[cwd].files
         after   == projects[cwd].files
         same    == { p \in Range(CONFIG_FILES) : Exists(hub, p) /\ before[p] = hub[p] }
         missing == { p \in Range(CONFIG_FILES) : Exists(hub, p) /\ ~Exists(before, p) }
         applied == { p \in Range(CONFIG_FILES) : Exists(hub, p) /\ before[p] # hub[p] }
     IN /\ \A p \in same : after[p] = before[p] /\ \A i \in CopiedLines : out[i][2] # <<p>>
        /\ \A p \in missing : after[p] = hub[p]
        /\ \E i \in 1..Len(out) : out[i][1] = "Pulled" /\ out[i][2] = <<Cardinality(applied)>>
        /\ exitCode = 0

----------------------------------------------------------------------------
(* Further properties of the deployment scripts (checked under SpecDeploy) *)

ManifestUnusable == manifest.state \in {"missing", "malformed"}

GuardedCommands ==
  {"git push", "git pull", "npm run validate-production", "gh pr create"}

C13_ManifestFailureStopsDeploy ==
  (tool \in DeployScripts /\ ManifestUnusable)
  => /\ pc \in {"prereq", "ghAuth", "export", "exited"}
     /\ CmdNames \cap GuardedCommands = {}
     /\ pc = "exited" => exitCode # 0


\* The tools named by the "  - tool" lines printed so far.
ListedTools == { out[i][2][1] : i \in { j \in 1..Len(out) : out[j][1] = "  - " } }

\* C15: validate_prerequisites tests all six tools.  With a non-empty set M of
\* tools absent from PATH the script exits 1 and the printed list names exactly
\* the tools of M, each once; with M empty it prints no such error and the
\* script goes on to its next step.
C15_EveryMissingToolListed ==
  (tool \in DeployScripts /\ pc # "prereq")
  => IF absent # {}
     THEN /\ pc = "exited" /\ exitCode = 1
          /\ cmds = << >>
          /\ out[1] = <<"ERROR: Missing required tools:", EmptyStr>>
          /\ ListedTools = absent
          /\ Len(out) = 1 + Cardinality(absent)
     ELSE /\ <<"ERROR: Missing required tools:", EmptyStr>> \notin Range(out)
          /\ ListedTools = {}
          /\ pc = "exited" => (cmds # << >> \/ out # << >>)

\* A run stopped with three tools missing, the first and the last of the list
\* among them.
C15_Witness ==
  /\ tool \in DeployScripts /\ pc = "exited" /\ exitCode = 1
  /\ absent = {"git", "jq", "curl"}
  /\ ListedTools = absent

\* The place of each command of deploy-preview.sh in the script's text.
PreviewStepRank(name) ==
  CASE name = "git status -s"               -> 1
    [] name = "npm run validate-production" -> 2
    [] name = "git push"                    -> 3
    [] name = "read"                        -> 4
    [] name = "gh auth status"              -> 5
    [] name = "gh pr create"                -> 6
    [] name = "sleep"                       -> 7
    [] name = "bash verify-preview.sh"      -> 8
    [] OTHER                                -> 9

\* The lines with which deploy-preview.sh and its child report a failed step.
PreviewFailureLabels ==
  { "ERROR: Missing required tools:", "ERROR: Must be on preview or feature/* branch",
    "ERROR: You have uncommitted changes", "ERROR: GitHub CLI not authenticated",
    "check(s) failed" }

ProductionSteps ==
  <<"gh auth status", "curl", "read", "git pull", "npm run validate-production",
    "gh pr create">>

\* The lines with which deploy-production.sh reports a failed precondition.
ProductionFailureLabels ==
  { "ERROR: Missing required tools:", "ERROR: GitHub CLI not authenticated",
    "ERROR: Production deploys must come from preview branch",
    "ERROR: Preview health check failed", "Deployment cancelled" }

\* C17: deploy-production reaches gh pr create only in a run where, in this
\* order, the current branch was the preview branch, the preview /api/health
\* probe succeeded, the reply was exactly "yes", git pull of the preview branch
\* succeeded and the validation succeeded; a run in which one of them failed
\* is over without gh pr create.
C17_PrOnlyAfterAllGates ==
  (tool = "deploy-production")
  => /\ "gh pr create" \in CmdNames
          => /\ curBranch = env.PREVIEW_BRANCH
             /\ reply = <<"yes">>
             /\ [i \in 1..Len(cmds) |-> cmds[i][1]] = ProductionSteps
             /\ cmds[2][2] = env.PREVIEW_URL \o <<"/api/health">>
             /\ cmds[4][2] = <<"origin", env.PREVIEW_BRANCH>>
             /\ \A l \in Range(out) : l[1] \notin ProductionFailureLabels
             /\ exitCode \in {-1, 0}
     /\ (\E l \in Range(out) : l[1] \in ProductionFailureLabels)
          => pc = "exited" /\ exitCode # 0 /\ "gh pr create" \notin CmdNames
     /\ (pc = "exited" /\ exitCode # 0) => "gh pr create" \notin CmdNames
     /\ \A i \in 1..Len(cmds) : i <= Len(ProductionSteps) /\ cmds[i][1] = ProductionSteps[i]

\* A run that passed every gate and invoked gh pr create.
C17_Witness ==
  /\ tool = "deploy-production" /\ "gh pr create" \in CmdNames
  /\ reply = <<"yes">> /\ curBranch = <<"preview">>
  /\ pc = "exited" /\ exitCode = 0

\* C18: in deploy-preview a missing GitHub CLI session is reported, and the run
\* ended with a non-zero status, before any mutation: git push has not been
\* invoked in a run that reports it.
C18_AuthFailureBeforePush ==
  ( /\ tool = "deploy-preview"
    /\ <<"ERROR: GitHub CLI not authenticated", EmptyStr>> \in Range(out) )
  => /\ pc = "exited" /\ exitCode # 0
     /\ "git push" \notin CmdNames

\* The manifest names two different branches, the production one no feature
\* branch.
BranchesWellFormed ==
  /\ manifest.state = "ok"
  /\ manifest.fields.previewBranch # manifest.fields.productionBranch
  /\ ~IsFeatureBranch(manifest.fields.productionBranch)

\* C29: with such a manifest no run of deploy-preview or deploy-production,
\* whatever the current branch, the state of the working tree and the replies,
\* invokes git push with the production branch as its target.
C29_NoPushToProduction ==
  (tool \in DeployScripts /\ BranchesWellFormed)
  => \A i \in 1..Len(cmds) :
       cmds[i][1] = "git push" => cmds[i][2][2] # manifest.fields.productionBranch

\* deploy-preview has pushed the preview branch and finished, the production
\* branch being another one.
C29_Witness ==
  /\ tool = "deploy-preview" /\ BranchesWellFormed
  /\ pc = "exited" /\ exitCode = 0
  /\ <<"git push", <<"origin", manifest.fields.previewBranch>>>> \in Range(cmds)
  /\ "gh pr create" \notin CmdNames

----------------------------------------------------------------------------
(* Further properties of the template sync engine (checked under SpecSync) *)

\* Number of printed lines that carry the given label.
LinesWith(label) == Cardinality({ i \in 1..Len(out) : out[i][1] = label })

\* The projects sync-all-projects.js has been through in this run.
Processed == { PROJECTS[i] : i \in 1..(idx - 1) }

\* Every project whose directory is not there has been counted as skipped and
\* not as an error; the two counters are the numbers of lines printed.
MissingProjectsSkipped ==
  /\ skipCount = LinesWith("Project not found, skipping") + LinesWith("Already up to date")
  /\ errorCount = LinesWith("Error syncing")
  /\ \A n \in Processed :
       ~projects[n].exists
       => /\ <<"Project not found, skipping", <<n>>>> \in Range(out)
          /\ <<"Error syncing", <<n>>>> \notin Range(out)

C19_DirectoriesMirrorSource ==
  ( /\ tool = "sync-config" /\ Command \in {"push", "pull"} /\ ~DRY_RUN
    /\ cwd # DEFAULT_PATH /\ pc = "exited" )
  => LET src == IF Command = "push" THEN start.projects[cwd].files ELSE start.hub
         dst == IF Command = "push" THEN hub ELSE projects[cwd].files
     IN \A file \in DirectoryEntries : Exists(src, file) => dst[file] = src[file]


\* "Already up to date" has been printed for x in this run.
ReportedUpToDate(x) == <<"Already up to date", <<x>>>> \in Range(out)

\* The two copies are the same: both there, with the same content.
Identical(a, b) == a # NoFile /\ a = b

C21_EveryEntryCounted ==
  (tool = "sync-to-project" /\ pc \in {"loop", "exited"})
  => syncCount + skipCount + errorCount = idx - 1


\* C22: pull-from-source.js writes a file of the template directory only when
\* its content differs from the source project's file; a file with the same
\* content is reported as up to date and left alone.  A second run that is no
\* dry run, the source unchanged, reports 0 updated files and writes nothing.
C22_PullFromSourceWritesOnlyChanges ==
  (tool = "pull-from-source")
  => /\ \A i \in 1..Len(FILES_TO_PULL) :
          LET e == FILES_TO_PULL[i]
              s == start.projects[SOURCE_PROJECT].files[e.source]
          IN /\ hub[e.dest] # start.hub[e.dest]
                  => /\ ~dryRun /\ i < idx /\ s # NoFile
                     /\ start.hub[e.dest] # s
                     /\ hub[e.dest] = s
                     /\ <<"Updated", <<e.dest>>>> \in Range(out)
             /\ ReportedUpToDate(e.dest) => hub[e.dest] = start.hub[e.dest]
             /\ (i < idx /\ s # NoFile /\ s = start.hub[e.dest]) => ReportedUpToDate(e.dest)
     /\ projects = start.projects
     /\ (~dryRun /\ runNo = 2)
          => /\ changedCount = 0
             /\ hub = start.hub
             /\ \A l \in Range(out) : l[1] # "Updated"
             /\ pc = "exited" => exitCode = prior.exitCode

\* A second run that found everything up to date after a first run that had
\* updated a file.
C22_Witness ==
  /\ tool = "pull-from-source" /\ ~dryRun /\ runNo = 2
  /\ pc = "exited" /\ exitCode = 0
  /\ \E l \in Range(prior.out) : l[1] = "Updated"
  /\ <<"Summary: Updated", <<0>>>> \in Range(out)
  /\ skipCount >= 2


----------------------------------------------------------------------------
(* The scripts that ask for a confirmation, as one specification *)

InitPrompted == InitDeploy \/ InitBoot

NextPrompted == NextDeploy \/ NextBoot

SpecPrompted == InitPrompted /\ [][NextPrompted]_vars

\* The user declined the prompt of init-new-project.sh / deploy-production.sh.
BootDeclined == tool = "init-new-project" /\ <<"Cancelled.", EmptyStr>> \in Range(out)
DeployDeclined ==
  tool = "deploy-production" /\ <<"Deployment cancelled", EmptyStr>> \in Range(out)

\* Nothing has been written, committed or sent: only prompts, the session
\* test and the health probe have run.
NothingChanged ==
  /\ CmdNames \subseteq {"read", "gh auth status", "curl"}
  /\ newProj = NoProject

\* C23 (as stated): a run whose confirmation prompt was declined is a clean
\* cancellation, for the bootstrap prompt and for the 'yes' gate of
\* deploy-production alike: it ends with status 0 and has changed nothing.
C23_DeclineExitsZero ==
  (BootDeclined \/ DeployDeclined)
  => pc = "exited" /\ exitCode = 0 /\ NothingChanged

\* C23 (amended): a declined run has changed nothing; it ends with status 0
\* in init-new-project.sh and with status 1 in deploy-production.sh.
C23_DeclineChangesNothing ==
  /\ BootDeclined => pc = "exited" /\ exitCode = 0 /\ NothingChanged
  /\ DeployDeclined => pc = "exited" /\ exitCode = 1 /\ NothingChanged
  /\ (tool = "init-new-project" /\ reply \notin { <<"y">>, <<"Y">> } /\ pc = "exited"
        /\ "Continue with these settings?" \in { cmds[i][2][1] : i \in { j \in 1..Len(cmds) : cmds[j][1] = "read" } })
       => BootDeclined
  /\ (tool = "deploy-production" /\ "read" \in CmdNames /\ reply # <<"yes">>) => DeployDeclined

\* deploy-production stopped by the reply "no".
C23_Witness ==
  /\ DeployDeclined /\ reply = <<"no">>
  /\ pc = "exited" /\ exitCode = 1


----------------------------------------------------------------------------
(* Backups and options of sync-config.sh (checked under SpecSync) *)

\* A push or pull that is no dry run, past its first checks.
RealSyncRun ==
  /\ tool = "sync-config" /\ Command \in {"push", "pull"} /\ ~DRY_RUN
  /\ cwd # DEFAULT_PATH /\ pc \in {"loop", "exited"}

\* The destination tree as it was when the run started.
DestinationAtStart ==
  IF Command = "push" THEN start.hub ELSE start.projects[cwd].files

\* The backup entry b holds the content c: as its only content, or as the
\* last thing copied into a directory that was in the backup already.
Holds(b, c) ==
  \/ b = c
  \/ /\ b # NoFile /\ c # NoFile /\ Len(b[1]) > Len(c[1])
     /\ SubSeq(b[1], Len(b[1]) - Len(c[1]) + 1, Len(b[1])) = c[1]

\* C24: in a push or pull with --backup that is no dry run, every allowlisted
\* path that was at the destination before the run and has been overwritten is
\* in the run's backup directory with the content it had before the run; the
\* backup directory lies under the destination's .sync-backups.
C24_BackupHoldsOverwritten ==
  (RealSyncRun /\ CREATE_BACKUP)
  => /\ backups # << >>
     /\ backups[Len(backups)].root = (IF Command = "push" THEN DEFAULT_PATH ELSE cwd)
     /\ \A file \in Range(CONFIG_FILES) :
          ( /\ <<"Copied", <<file>>>> \in Range(out)
            /\ Exists(DestinationAtStart, file) )
          => Holds(backups[Len(backups)].files[file], DestinationAtStart[file])

\* A finished pull with --backup that replaced a directory by other content
\* and kept the old content in the backup.
C24_Witness ==
  /\ RealSyncRun /\ CREATE_BACKUP /\ Command = "pull" /\ pc = "exited" /\ exitCode = 0
  /\ <<"Copied", <<"docs/standards">>>> \in Range(out)
  /\ Exists(DestinationAtStart, "docs/standards")
  /\ DestinationAtStart["docs/standards"] # projects[cwd].files["docs/standards"]
  /\ backups[Len(backups)].files["docs/standards"] = DestinationAtStart["docs/standards"]


\* The source tree as it was when the run started.
SourceAtStart ==
  IF Command = "push" THEN start.projects[cwd].files ELSE start.hub

DestinationNow == IF Command = "push" THEN hub ELSE projects[cwd].files

\* The allowlisted paths a finished run has counted: those present at the
\* source, or the first of them when the shell leaves at the first count.
PresentAtSource ==
  SelectInOrder(CONFIG_FILES, { f \in Range(CONFIG_FILES) : Exists(SourceAtStart, f) })
CountedPaths ==
  IF PresentAtSource = << >> THEN {}
  ELSE IF errexit THEN {PresentAtSource[1]}
  ELSE Range(PresentAtSource)

\* The run has rewritten the project's CLAUDE.md with the generator.
RanGenerator ==
  /\ Command = "pull" /\ ~DRY_RUN /\ generator = "works" /\ Exists(start.hub, "CLAUDE.md")
  /\ <<"bash", <<"scripts/generate-claude-md.sh">>>> \in Range(cmds)

\* C25: in a push or pull the result does not depend on --force: whatever the
\* contents and the other options, a finished run has counted the same paths
\* and left the same destination tree, a destination copy that differs from
\* the source being overwritten in both cases; --force only suppresses the
\* conflict warning.
C25_ForceOnlySilencesWarning ==
  ( /\ tool = "sync-config" /\ Command \in {"push", "pull"} /\ cwd # DEFAULT_PATH
    /\ pc = "exited" )
  => /\ count = Cardinality(CountedPaths)
     /\ \A file \in Range(CONFIG_FILES) :
          /\ DestinationNow[file] =
               IF file = "CLAUDE.md" /\ RanGenerator THEN Generated(start.hub["CLAUDE.md"])
               ELSE IF ~DRY_RUN /\ file \in CountedPaths THEN SourceAtStart[file]
               ELSE DestinationAtStart[file]
          /\ (\E l \in Range(out) : l[1] \in {"Overwriting", "Would overwrite"} /\ l[2] = <<file>>)
               <=> /\ ~FORCE /\ file \in CountedPaths
                   /\ Exists(DestinationAtStart, file)
                   /\ DestinationAtStart[file] # SourceAtStart[file]

\* A finished pull with --force that overwrote a differing copy without a
\* warning.
C25_Witness ==
  /\ tool = "sync-config" /\ Command = "pull" /\ FORCE /\ ~DRY_RUN /\ pc = "exited"
  /\ cwd # DEFAULT_PATH
  /\ \E file \in Range(CONFIG_FILES) :
       /\ Exists(DestinationAtStart, file) /\ Exists(SourceAtStart, file)
       /\ DestinationAtStart[file] # SourceAtStart[file]
       /\ DestinationNow[file] = SourceAtStart[file]
  /\ \A l \in Range(out) : l[1] \notin {"Overwriting", "Would overwrite"}


\* The targets of the template files.
TemplateTargets == { TEMPLATE_FILES[i].target : i \in 1..Len(TEMPLATE_FILES) }

\* C26: in sync-config.sh init the template files are disjoint from the
\* allowlist: no path is written by the allowlist copy and then again from a
\* .template file in the same run.
C26_TemplatesDisjointFromAllowlist ==
  (tool = "sync-config" /\ Command = "init")
  => \A file \in TemplateTargets :
       ~ ( /\ <<"Copied", <<file>>>> \in Range(out)
           /\ <<"Created from template", <<file>>>> \in Range(out) )


----------------------------------------------------------------------------
(* The repository made by init-new-project.sh (checked under SpecBoot) *)

\* C27: after a successful run of init-new-project.sh the new repository has
\* exactly one commit, the branches main and preview, both at that commit, and
\* HEAD on main; the preview and production branches of the generated
\* manifest are preview and main: distinct, not empty, and branches of the
\* repository.
C27_RepositoryMatchesManifest ==
  (tool = "init-new-project" /\ pc = "exited" /\ exitCode = 0 /\ newProj.exists)
  => /\ newProj.repo.commits = 1
     /\ newProj.repo.branches = { <<"main">>, <<"preview">> }
     /\ newProj.repo.head = <<"main">>
     /\ manifest.state = "ok"
     /\ manifest.fields.previewBranch = <<"preview">>
     /\ manifest.fields.productionBranch = <<"main">>
     /\ manifest.fields.previewBranch # manifest.fields.productionBranch
     /\ {manifest.fields.previewBranch, manifest.fields.productionBranch}
          \subseteq newProj.repo.branches


----------------------------------------------------------------------------
(* Option parsing of sync-config.sh (checked under SpecSync) *)

\* Position of the first argument that is no option (the command word), one
\* past the end when every argument is an option.
CommandPosition ==
  IF \E i \in 1..Len(argv) : argv[i] \notin OptionWords
  THEN CHOOSE i \in 1..Len(argv) :
         argv[i] \notin OptionWords /\ \A j \in 1..(i - 1) : argv[j] \in OptionWords
  ELSE Len(argv) + 1

GivenBeforeCommand(words) == \E i \in 1..(CommandPosition - 1) : argv[i] \in words

\* C28: sync-config.sh takes --dry-run/-d, --backup/-b and --force/-f only
\* from the arguments that precede the command word; `push --dry-run` and
\* `pull --dry-run` therefore run with DRY_RUN=false and really copy.
C28_OptionsOnlyBeforeCommand ==
  (tool = "sync-config")
  => /\ DRY_RUN <=> GivenBeforeCommand({"--dry-run", "-d"})
     /\ CREATE_BACKUP <=> GivenBeforeCommand({"--backup", "-b"})
     /\ FORCE <=> GivenBeforeCommand({"--force", "-f"})
     /\ Command = (IF CommandPosition <= Len(argv) THEN argv[CommandPosition] ELSE "")
     /\ ( /\ argv \in { <<"push", "--dry-run">>, <<"pull", "--dry-run">> }
          /\ cwd # DEFAULT_PATH /\ pc = "exited" /\ PresentAtSource # << >> )
        => /\ \A l \in Range(out) : l[1] # "Would copy"
           /\ <<"Copied", <<PresentAtSource[1]>>>> \in Range(out)
           /\ DestinationNow[PresentAtSource[1]] =
                IF PresentAtSource[1] = "CLAUDE.md" /\ RanGenerator
                THEN Generated(start.hub["CLAUDE.md"])
                ELSE SourceAtStart[PresentAtSource[1]]

\* `push --dry-run` has changed the template directory.
C28_Witness ==
  /\ tool = "sync-config" /\ argv = <<"push", "--dry-run">> /\ pc = "exited"
  /\ runNo = 1 /\ hub # start.hub

----------------------------------------------------------------------------
(* Two runs of sync-all-projects.js in a row (checked under SpecSync) *)

\* The stamp of a project agrees with the stamp of the template directory,
\* both read as sync-all-projects.js reads them.
StampCurrent(n) ==
  /\ Exists(projects[n].files, VersionFile)
  /\ ReadVersion(projects[n].files[VersionFile][1]) = ReadVersion(hub[VersionFile][1])

\* A run of sync-all-projects.js without --dry-run that ended with no error
\* counted.
CleanSyncAll(code, dry) == code = 0 /\ ~dry

\* The number of times sync-to-project.js was started in the run whose output
\* is lines: once after every 'Updating' line of a run that is no dry run.
ChildRuns(lines) == Cardinality({ i \in 1..Len(lines) : lines[i][1] = "Updating" })

\* C30: after a sync-all-projects run without --dry-run that ends with zero
\* errors, every registered project whose directory exists has a
\* .dev-standards-version equal to the version stamp of the template
\* directory; the run that follows immediately reports each of them as
\* already up to date, starts sync-to-project.js for none and commits nothing.
C30_SecondRunFindsAllUpToDate ==
  tool = "sync-all-projects"
  => /\ (pc = "exited" /\ CleanSyncAll(exitCode, dryRun))
        => \A n \in Range(PROJECTS) : projects[n].exists => StampCurrent(n)
     /\ (runNo = 2 /\ CleanSyncAll(prior.exitCode, dryRun))
        => /\ projects = start.projects
           /\ ChildRuns(out) = 0
           /\ CountOf(cmds, <<"node sync-to-project.js", <<PROJECTS[1]>>>>)
                + CountOf(cmds, <<"node sync-to-project.js", <<PROJECTS[2]>>>>)
              = ChildRuns(prior.out)
           /\ \A n \in Processed : projects[n].exists => ReportedUpToDate(n)


====
